---- MODULE Spec2Model ----
(***************************************************************************)
(* Model of EsploraSyncClient (lightning-transaction-sync/src/esplora.rs):  *)
(* the sync() reconciliation loop, the confirmation and unconfirmation      *)
(* sub-passes, the Merkle-proof lookup and the Filter registration queue.   *)
(*                                                                         *)
(* Two specifications are defined over the same variables:                 *)
(*   Spec      concurrent sync() callers, registrations and a moving       *)
(*             remote tip; every query of the Chain Data Source is a       *)
(*             nondeterministic answer (the server is untrusted).          *)
(*   SpecConf  one confirmation sub-pass in detail: every answer of the    *)
(*             server is kept in the state next to what the code made of   *)
(*             it.                                                         *)
(***************************************************************************)
EXTENDS Integers, Sequences, FiniteSets, TLC

(***************************************************************************)
(* Bounds of the model.                                                    *)
(***************************************************************************)
MaxIters == 2          \* loop iterations started by all sync() calls together
MaxEnv == 2            \* tip changes and registrations
MaxCandidates == 2     \* watched txids + outputs of a detailed sub-pass
MaxRelevant == 1             \* relevant entries the sinks report in one iteration
MaxReports == 2              \* entries the sinks report to one unconfirmation sub-pass

(***************************************************************************)
(* Value domains.                                                          *)
(***************************************************************************)
None == "none"                       \* Option::None of a hash or txid
NoHeight == 0                        \* Option<u32>::None of a block height
Callers == {"s1", "s2"}              \* threads / tasks calling sync()
Sinks == <<"c1", "c2">>              \* the confirmables handed to sync(), a Vec
Txids == {"t1", "t2"}
Outpoints == {"o1", "o2"}
Blocks == {"A", "B"}                 \* block hashes
Heights == {1, 2}                    \* heights the server reports
Positions == {0, 1}                  \* in-block positions of a Merkle proof
TxSizes == {64, 65}                  \* Transaction::total_size()

(***************************************************************************)
(* ConfirmedTx { tx, txid, block_header, pos, block_height }.  The          *)
(* transaction is kept by its size; the header, which sync() only hands    *)
(* on to the sinks, is left out.                                           *)
(***************************************************************************)
ConfirmedTx(txid, pos, block_height, size) ==
    [txid |-> txid, pos |-> pos, block_height |-> block_height, size |-> size]

NoTx == ConfirmedTx(None, 0, NoHeight, 0)

(***************************************************************************)
(* Answers of the Chain Data Source to the queries of one get_confirmed_tx  *)
(* call: get_merkle_block, get_tx, get_block_status.  A query that the      *)
(* code does not reach carries "unasked".                                  *)
(***************************************************************************)
MatchLists == {<<>>} \cup {<<t>> : t \in Txids} \cup {<<"t1", "t2">>}
IndexLists == {<<>>} \cup {<<i>> : i \in Positions} \cup {<<0, 1>>}

LookupAnswer(merkle, block_hash, matches, indexes, tx, tx_txid, tx_size, status, height) ==
    [merkle |-> merkle, block_hash |-> block_hash, matches |-> matches,
     indexes |-> indexes, tx |-> tx, tx_txid |-> tx_txid, tx_size |-> tx_size,
     status |-> status, height |-> height]

NoAnswer == LookupAnswer("unasked", None, <<>>, <<>>, "unasked", None, 0, "unasked", NoHeight)

\* one query answered: the Merkle block
Answers1 ==
    {LookupAnswer(m, None, <<>>, <<>>, "unasked", None, 0, "unasked", NoHeight) :
        m \in {"err", "none"}}
    \cup {LookupAnswer("proof", b, ms, is, "unasked", None, 0, "unasked", NoHeight) :
        b \in Blocks, ms \in MatchLists, is \in IndexLists}
\* two queries answered: the Merkle block (a proof) and the transaction
Answers2 ==
    {[a EXCEPT !.tx = t] : a \in {x \in Answers1 : x.merkle = "proof"}, t \in {"err", "none"}}
    \cup {[a EXCEPT !.tx = "tx", !.tx_txid = t, !.tx_size = s] :
        a \in {x \in Answers1 : x.merkle = "proof"}, t \in Txids, s \in TxSizes}
\* three queries answered: also the block status
Answers3 ==
    {[a EXCEPT !.status = "err"] : a \in {x \in Answers2 : x.tx = "tx"}}
    \cup {[a EXCEPT !.status = "ok", !.height = h] :
        a \in {x \in Answers2 : x.tx = "tx"}, h \in Heights \cup {NoHeight}}
LookupAnswers == Answers1 \cup Answers2 \cup Answers3

(***************************************************************************)
(* Result<Option<ConfirmedTx>, InternalError> of get_confirmed_tx, with the *)
(* number of queries it made and the condition it logged.                  *)
(***************************************************************************)
LookupResult(res, why, tx, asked) == [res |-> res, why |-> why, tx |-> tx, asked |-> asked]

GetConfirmedTx_skips_bad_proof(txid, expected_block_hash, known_block_height, a) ==
    IF a.merkle = "err" THEN LookupResult("err", "transport", NoTx, 1)
    ELSE IF a.merkle # "proof" THEN LookupResult("none", "no_proof", NoTx, 1)
    ELSE IF expected_block_hash # None /\ expected_block_hash # a.block_hash
        THEN LookupResult("incons", "hash_mismatch", NoTx, 1)
    ELSE IF Len(a.indexes) # 1 \/ Len(a.matches) # 1 \/ a.matches[1] # txid
        THEN LookupResult("none", "bad_proof", NoTx, 1)
    ELSE IF a.tx = "err" THEN LookupResult("err", "transport", NoTx, 2)
    ELSE IF a.tx # "tx" THEN LookupResult("none", "no_tx", NoTx, 2)
    ELSE IF a.tx_txid # txid THEN LookupResult("failed", "bad_txid", NoTx, 2)
    ELSE IF a.tx_size = 64 THEN LookupResult("none", "size_64", NoTx, 2)
    ELSE IF known_block_height # NoHeight
        THEN LookupResult("some", "known_height",
                 ConfirmedTx(txid, a.indexes[1], known_block_height, a.tx_size), 2)
    ELSE IF a.status = "err" THEN LookupResult("err", "transport", NoTx, 3)
    ELSE IF a.height # NoHeight
        THEN LookupResult("some", "status_height",
                 ConfirmedTx(txid, a.indexes[1], a.height, a.tx_size), 3)
    ELSE LookupResult("incons", "no_height", NoTx, 3)

GetConfirmedTx_no_size_check(txid, expected_block_hash, known_block_height, a) ==
    IF a.merkle = "err" THEN LookupResult("err", "transport", NoTx, 1)
    ELSE IF a.merkle # "proof" THEN LookupResult("none", "no_proof", NoTx, 1)
    ELSE IF expected_block_hash # None /\ expected_block_hash # a.block_hash
        THEN LookupResult("incons", "hash_mismatch", NoTx, 1)
    ELSE IF Len(a.indexes) # 1 \/ Len(a.matches) # 1 \/ a.matches[1] # txid
        THEN LookupResult("failed", "bad_proof", NoTx, 1)
    ELSE IF a.tx = "err" THEN LookupResult("err", "transport", NoTx, 2)
    ELSE IF a.tx # "tx" THEN LookupResult("none", "no_tx", NoTx, 2)
    ELSE IF a.tx_txid # txid THEN LookupResult("failed", "bad_txid", NoTx, 2)
    ELSE IF known_block_height # NoHeight
        THEN LookupResult("some", "known_height",
                 ConfirmedTx(txid, a.indexes[1], known_block_height, a.tx_size), 2)
    ELSE IF a.status = "err" THEN LookupResult("err", "transport", NoTx, 3)
    ELSE IF a.height # NoHeight
        THEN LookupResult("some", "status_height",
                 ConfirmedTx(txid, a.indexes[1], a.height, a.tx_size), 3)
    ELSE LookupResult("incons", "no_height", NoTx, 3)

GetConfirmedTx_no_proof_restarts(txid, expected_block_hash, known_block_height, a) ==
    IF a.merkle = "err" THEN LookupResult("err", "transport", NoTx, 1)
    ELSE IF a.merkle # "proof" THEN LookupResult("incons", "no_proof", NoTx, 1)
    ELSE IF expected_block_hash # None /\ expected_block_hash # a.block_hash
        THEN LookupResult("incons", "hash_mismatch", NoTx, 1)
    ELSE IF Len(a.indexes) # 1 \/ Len(a.matches) # 1 \/ a.matches[1] # txid
        THEN LookupResult("failed", "bad_proof", NoTx, 1)
    ELSE IF a.tx = "err" THEN LookupResult("err", "transport", NoTx, 2)
    ELSE IF a.tx # "tx" THEN LookupResult("none", "no_tx", NoTx, 2)
    ELSE IF a.tx_txid # txid THEN LookupResult("failed", "bad_txid", NoTx, 2)
    ELSE IF a.tx_size = 64 THEN LookupResult("none", "size_64", NoTx, 2)
    ELSE IF known_block_height # NoHeight
        THEN LookupResult("some", "known_height",
                 ConfirmedTx(txid, a.indexes[1], known_block_height, a.tx_size), 2)
    ELSE IF a.status = "err" THEN LookupResult("err", "transport", NoTx, 3)
    ELSE IF a.height # NoHeight
        THEN LookupResult("some", "status_height",
                 ConfirmedTx(txid, a.indexes[1], a.height, a.tx_size), 3)
    ELSE LookupResult("incons", "no_height", NoTx, 3)

\* get_confirmed_tx(txid, expected_block_hash, known_block_height) on the answers a
GetConfirmedTx(txid, expected_block_hash, known_block_height, a) ==
    IF a.merkle = "err" THEN LookupResult("err", "transport", NoTx, 1)
    ELSE IF a.merkle # "proof" THEN LookupResult("none", "no_proof", NoTx, 1)
    ELSE IF expected_block_hash # None /\ expected_block_hash # a.block_hash
        THEN LookupResult("incons", "hash_mismatch", NoTx, 1)
    ELSE IF Len(a.indexes) # 1 \/ Len(a.matches) # 1 \/ a.matches[1] # txid
        THEN LookupResult("failed", "bad_proof", NoTx, 1)
    ELSE IF a.tx = "err" THEN LookupResult("err", "transport", NoTx, 2)
    ELSE IF a.tx # "tx" THEN LookupResult("none", "no_tx", NoTx, 2)
    ELSE IF a.tx_txid # txid THEN LookupResult("failed", "bad_txid", NoTx, 2)
    ELSE IF a.tx_size = 64 THEN LookupResult("none", "size_64", NoTx, 2)
    ELSE IF known_block_height # NoHeight
        THEN LookupResult("some", "known_height",
                 ConfirmedTx(txid, a.indexes[1], known_block_height, a.tx_size), 2)
    ELSE IF a.status = "err" THEN LookupResult("err", "transport", NoTx, 3)
    ELSE IF a.height # NoHeight
        THEN LookupResult("some", "status_height",
                 ConfirmedTx(txid, a.indexes[1], a.height, a.tx_size), 3)
    ELSE LookupResult("incons", "no_height", NoTx, 3)

\* the answers the code consumes in full: none of its queries is left unanswered
\* and none is answered that it does not make
AnswerTable ==
    [txid \in Txids \cup {None}, expected_block_hash \in Blocks \cup {None},
     known_block_height \in Heights \cup {NoHeight} |->
        {a \in LookupAnswers :
            LET r == GetConfirmedTx(txid, expected_block_hash, known_block_height, a)
                given == IF a.status # "unasked" THEN 3 ELSE IF a.tx # "unasked" THEN 2 ELSE 1
            IN r.asked = given}]

AnswersFor(txid, expected_block_hash, known_block_height) ==
    AnswerTable[txid, expected_block_hash, known_block_height]

(***************************************************************************)
(* Answers of get_output_status: Option<OutputStatus { txid, status }>,     *)
(* status being Option<TxStatus { confirmed, block_hash, block_height }>.   *)
(***************************************************************************)
OutputAnswer(ostatus, txid, status, confirmed, block_hash, block_height) ==
    [ostatus |-> ostatus, txid |-> txid, status |-> status, confirmed |-> confirmed,
     block_hash |-> block_hash, block_height |-> block_height]

NoOutputAnswer == OutputAnswer("unasked", None, "none", FALSE, None, NoHeight)

OutputAnswers ==
    {OutputAnswer(s, None, "none", FALSE, None, NoHeight) : s \in {"err", "none", "some"}}
    \cup {OutputAnswer("some", t, "none", FALSE, None, NoHeight) : t \in Txids}
    \cup {OutputAnswer("some", t, "some", c, b, h) :
            t \in Txids, c \in BOOLEAN, b \in Blocks \cup {None}, h \in Heights \cup {NoHeight}}

(***************************************************************************)
(* One turn of each loop of get_confirmed_transactions.  A step result is   *)
(* the list so far, or the error the `?` / return hands to sync.           *)
(***************************************************************************)
StepResult(res, why, txs) == [res |-> res, why |-> why, txs |-> txs]

HasTxid_never(confirmed_txs, txid) == FALSE

HasTxid(confirmed_txs, txid) == \E i \in 1..Len(confirmed_txs) : confirmed_txs[i].txid = txid

\* what `if let Some(confirmed_tx) = get_confirmed_tx(..)? { push }` makes of a lookup
PushLookup_twice(confirmed_txs, r) ==
    IF r.res = "some" THEN StepResult("ok", r.why, Append(Append(confirmed_txs, r.tx), r.tx))
    ELSE IF r.res = "none" THEN StepResult("ok", r.why, confirmed_txs)
    ELSE StepResult(r.res, r.why, <<>>)

PushLookup(confirmed_txs, r) ==
    IF r.res = "some" THEN StepResult("ok", r.why, Append(confirmed_txs, r.tx))
    ELSE IF r.res = "none" THEN StepResult("ok", r.why, confirmed_txs)
    ELSE StepResult(r.res, r.why, <<>>)

\* body of `for txid in &sync_state.watched_transactions`; a answers the
\* queries of the lookup
WatchedTxStep(confirmed_txs, txid, a) ==
    IF HasTxid(confirmed_txs, txid) THEN StepResult("ok", "already_found", confirmed_txs)
    ELSE PushLookup(confirmed_txs, GetConfirmedTx(txid, None, NoHeight, a))

\* does the first loop look txid up?
TxStepLooksUp(confirmed_txs, txid) == ~HasTxid(confirmed_txs, txid)

WatchedOutputStep_no_dedup_check(confirmed_txs, o, a) ==
    IF o.ostatus = "err" THEN StepResult("err", "transport", <<>>)
    ELSE IF o.ostatus # "some" \/ o.txid = None \/ o.status # "some"
        THEN StepResult("ok", "no_spend", confirmed_txs)
    ELSE IF HasTxid(confirmed_txs, o.txid)
        THEN StepResult("ok", "duplicate", confirmed_txs)
    ELSE PushLookup(confirmed_txs, GetConfirmedTx(o.txid, o.block_hash, o.block_height, a))

WatchedOutputStep_pushes_duplicate(confirmed_txs, o, a) ==
    IF o.ostatus = "err" THEN StepResult("err", "transport", <<>>)
    ELSE IF o.ostatus # "some" \/ o.txid = None \/ o.status # "some"
        THEN StepResult("ok", "no_spend", confirmed_txs)
    ELSE IF HasTxid(confirmed_txs, o.txid) /\ ~o.confirmed
        THEN StepResult("incons", "dedup", <<>>)
    ELSE PushLookup(confirmed_txs, GetConfirmedTx(o.txid, o.block_hash, o.block_height, a))

\* body of `for (_, output) in &sync_state.watched_outputs`; o answers
\* get_output_status, a the queries of the lookup of the spending transaction
WatchedOutputStep(confirmed_txs, o, a) ==
    IF o.ostatus = "err" THEN StepResult("err", "transport", <<>>)
    ELSE IF o.ostatus # "some" \/ o.txid = None \/ o.status # "some"
        THEN StepResult("ok", "no_spend", confirmed_txs)
    ELSE IF HasTxid(confirmed_txs, o.txid)
        THEN IF o.confirmed THEN StepResult("ok", "duplicate", confirmed_txs)
             ELSE StepResult("incons", "dedup", <<>>)
    ELSE PushLookup(confirmed_txs, GetConfirmedTx(o.txid, o.block_hash, o.block_height, a))

\* does the output step look the spending transaction up?
OutputStepLooksUp(confirmed_txs, o) ==
    /\ o.ostatus = "some" /\ o.txid # None /\ o.status = "some"
    /\ ~HasTxid(confirmed_txs, o.txid)

(***************************************************************************)
(* confirmed_txs.sort_unstable_by(block_height, then pos): every order of   *)
(* the list that is ascending in that key (an unstable sort may leave      *)
(* equal keys in either order).                                            *)
(***************************************************************************)
HeightPosLe(tx1, tx2) ==
    \/ tx1.block_height < tx2.block_height
    \/ tx1.block_height = tx2.block_height /\ tx1.pos <= tx2.pos

ListOrders(n) == {p \in [1..n -> 1..n] : \A i, j \in 1..n : p[i] = p[j] => i = j}

SortByHeightPos_unsorted(confirmed_txs) == {confirmed_txs}

SortByHeightPos_height_only(confirmed_txs) ==
    LET n == Len(confirmed_txs)
        reordered == {[i \in 1..n |-> confirmed_txs[p[i]]] : p \in ListOrders(n)}
    IN {s \in reordered : \A i \in 1..(n - 1) : s[i].block_height <= s[i + 1].block_height}

SortByHeightPos(confirmed_txs) ==
    LET n == Len(confirmed_txs)
        reordered == {[i \in 1..n |-> confirmed_txs[p[i]]] : p \in ListOrders(n)}
    IN {s \in reordered : \A i \in 1..(n - 1) : HeightPosLe(s[i], s[i + 1])}

(***************************************************************************)
(* get_confirmed_transactions as a whole: every result it can return for   *)
(* the given watch set, over every iteration order of the HashSet and      *)
(* HashMap and every answer of the server.                                 *)
(***************************************************************************)
\* one answer for each distinct result of a lookup with the given arguments
LookupCases ==
    [txid \in Txids, expected \in Blocks \cup {None}, known \in Heights \cup {NoHeight} |->
        LET all == AnswersFor(txid, expected, known)
            results == {GetConfirmedTx(txid, expected, known, a) : a \in all}
        IN {CHOOSE a \in all : GetConfirmedTx(txid, expected, known, a) = r : r \in results}]

TxStepResults(acc, t) ==
    IF TxStepLooksUp(acc, t)
    THEN {WatchedTxStep(acc, t, a) : a \in LookupCases[t, None, NoHeight]}
    ELSE {WatchedTxStep(acc, t, NoAnswer)}

\* lists reachable after the first loop has visited exactly the txids in S
TxLoopLists[S \in SUBSET Txids] ==
    IF S = {} THEN {<<>>}
    ELSE UNION {UNION {{r.txs : r \in {x \in TxStepResults(acc, t) : x.res = "ok"}} :
                       acc \in TxLoopLists[S \ {t}]} :
                t \in S}

\* errors with which the first loop can end
TxLoopErrors(watched_transactions) ==
    UNION {UNION {{r \in TxStepResults(acc, t) : r.res # "ok"} :
                  acc \in UNION {TxLoopLists[S] : S \in SUBSET (watched_transactions \ {t})}} :
           t \in watched_transactions}

OutputStepResults(acc) ==
    UNION {IF OutputStepLooksUp(acc, o)
           THEN {WatchedOutputStep(acc, o, a) : a \in LookupCases[o.txid, o.block_hash, o.block_height]}
           ELSE {WatchedOutputStep(acc, o, NoAnswer)} : o \in OutputAnswers}

\* lists reachable after the second loop has visited n outputs
RECURSIVE OutLoopLists(_, _)
OutLoopLists(start, n) ==
    IF n = 0 THEN start
    ELSE UNION {{r.txs : r \in {x \in OutputStepResults(acc) : x.res = "ok"}} :
                acc \in OutLoopLists(start, n - 1)}

OutLoopErrors(start, n) ==
    UNION {{r \in OutputStepResults(acc) : r.res # "ok"} :
           acc \in UNION {OutLoopLists(start, k) : k \in 0..(n - 1)}}

GetConfirmedTransactions(watched_transactions, watched_outputs) ==
    LET afterTxs == TxLoopLists[watched_transactions]
        n == Cardinality(watched_outputs)
    IN  {StepResult("ok", "sorted", s) :
            s \in UNION {SortByHeightPos(l) : l \in OutLoopLists(afterTxs, n)}}
        \cup TxLoopErrors(watched_transactions)
        \cup OutLoopErrors(afterTxs, n)

ConfirmedResults ==
    [wt \in SUBSET Txids, wo \in SUBSET Outpoints |-> GetConfirmedTransactions(wt, wo)]

(***************************************************************************)
(* get_unconfirmed_transactions.  The sinks' get_relevant_txids() entries   *)
(* (txid, confirmation height, Option<BlockHash>) are collected into a     *)
(* HashSet and visited in some order; `seen` is that order, each entry     *)
(* with the answer of get_block_status for its block: "in" (in_best_chain),*)
(* "out", "err" (the query failed) or "unasked".                           *)
(***************************************************************************)
RelevantEntry(txid, block_hash, answer) ==
    [txid |-> txid, block_hash |-> block_hash, answer |-> answer]

RelevantEntries ==
    {RelevantEntry(t, b, a) : t \in Txids, b \in Blocks, a \in {"in", "out", "err"}}
    \cup {RelevantEntry(t, None, "unasked") : t \in Txids}

SameEntry(e, f) == e.txid = f.txid /\ e.block_hash = f.block_hash

\* the orders in which the HashSet can be visited, with the answers given
RelevantSeqs ==
    {s \in UNION {[1..n -> RelevantEntries] : n \in 0..MaxRelevant} :
        \A i, j \in 1..Len(s) : SameEntry(s[i], s[j]) => i = j}

UnconfResult(res, txs) == [res |-> res, txs |-> txs]

RECURSIVE GetUnconfirmedTransactions_keeps_confirmed(_, _)
GetUnconfirmedTransactions_keeps_confirmed(seen, unconfirmed_txs) ==
    IF seen = <<>> THEN UnconfResult("ok", unconfirmed_txs)
    ELSE LET e == Head(seen) IN
         IF e.block_hash = None THEN UnconfResult("panic", <<>>)
         ELSE IF e.answer = "err" THEN UnconfResult("err", <<>>)
         ELSE GetUnconfirmedTransactions_keeps_confirmed(Tail(seen), Append(unconfirmed_txs, e.txid))

RECURSIVE GetUnconfirmedTransactions_skips_untracked(_, _)
GetUnconfirmedTransactions_skips_untracked(seen, unconfirmed_txs) ==
    IF seen = <<>> THEN UnconfResult("ok", unconfirmed_txs)
    ELSE LET e == Head(seen) IN
         IF e.block_hash = None
            THEN GetUnconfirmedTransactions_skips_untracked(Tail(seen), unconfirmed_txs)
         ELSE IF e.answer = "err" THEN UnconfResult("err", <<>>)
         ELSE IF e.answer = "in"
            THEN GetUnconfirmedTransactions_skips_untracked(Tail(seen), unconfirmed_txs)
         ELSE GetUnconfirmedTransactions_skips_untracked(Tail(seen), Append(unconfirmed_txs, e.txid))

\* the loop `for (txid, _conf_height, block_hash_opt) in relevant_txids`
RECURSIVE GetUnconfirmedTransactions(_, _)
GetUnconfirmedTransactions(seen, unconfirmed_txs) ==
    IF seen = <<>> THEN UnconfResult("ok", unconfirmed_txs)
    ELSE LET e == Head(seen) IN
         IF e.block_hash = None THEN UnconfResult("panic", <<>>)
         ELSE IF e.answer = "err" THEN UnconfResult("err", <<>>)
         ELSE IF e.answer = "in" THEN GetUnconfirmedTransactions(Tail(seen), unconfirmed_txs)
         ELSE GetUnconfirmedTransactions(Tail(seen), Append(unconfirmed_txs, e.txid))

\* the entries the loop reaches: it stops at the first failed query or panic
Reached(seen) ==
    \A i \in 1..Len(seen) : (seen[i].answer = "err" \/ seen[i].block_hash = None) => i = Len(seen)

\* what the sinks report, in the order the HashSet is visited
ReportSeqs ==
    {s \in UNION {[1..n -> {RelevantEntry(t, b, "unasked") :
                                t \in Txids, b \in Blocks \cup {None}}]
                   : n \in 0..MaxReports} :
        \A i, j \in 1..Len(s) : SameEntry(s[i], s[j]) => i = j}

(***************************************************************************)
(* SyncState and FilterQueue (common.rs).                                  *)
(***************************************************************************)
ANTI_REORG_DELAY == 6
TipHeights == {2, 7}                 \* heights the server reports for the tip

\* the previous outputs a transaction spends (fixed by its txid)
TxInputs == [t \in Txids |-> IF t = "t2" THEN {"o1", "o2"} ELSE {}]

OutputSpend(txid, block_height, outpoint) ==
    [txid |-> txid, block_height |-> block_height, outpoint |-> outpoint]

\* a notification a sink receives
Event(kind, sink, txid, block_hash, height, pos, size) ==
    [kind |-> kind, sink |-> sink, txid |-> txid, block_hash |-> block_hash,
     height |-> height, pos |-> pos, size |-> size]

ToEachSink_twice(kind, txid, block_hash, height, pos, size) ==
    [i \in 1..(2 * Len(Sinks)) |->
        Event(kind, Sinks[((i - 1) % Len(Sinks)) + 1], txid, block_hash, height, pos, size)]

\* `for c in confirmables { c.<notification> }`
ToEachSink(kind, txid, block_hash, height, pos, size) ==
    [i \in 1..Len(Sinks) |-> Event(kind, Sinks[i], txid, block_hash, height, pos, size)]

\* `for txid in unconfirmed_txs { for c in confirmables { c.transaction_unconfirmed(&txid) } .. }`
RECURSIVE UnconfirmedEvents(_)
UnconfirmedEvents(txs) ==
    IF txs = <<>> THEN <<>>
    ELSE ToEachSink("transaction_unconfirmed", Head(txs), None, NoHeight, 0, 0)
         \o UnconfirmedEvents(Tail(txs))

\* `for ctx in confirmed_txs { for c in confirmables { c.transactions_confirmed(..) } .. }`
RECURSIVE ConfirmedEvents(_)
ConfirmedEvents(txs) ==
    IF txs = <<>> THEN <<>>
    ELSE LET ctx == Head(txs) IN
         ToEachSink("transactions_confirmed", ctx.txid, None, ctx.block_height,
                    ctx.pos, ctx.size)
         \o ConfirmedEvents(Tail(txs))

SeqRange(s) == {s[i] : i \in 1..Len(s)}

VARIABLES
    remoteTip,              \* tip hash of the Chain Data Source
    envSteps,               \* tip changes and registrations so far
    queue_transactions,     \* FilterQueue::transactions
    queue_outputs,          \* FilterQueue::outputs (by outpoint)
    watched_transactions,   \* SyncState::watched_transactions
    watched_outputs,        \* SyncState::watched_outputs (by outpoint)
    outputs_spends,         \* SyncState::outputs_spends_pending_threshold_conf
    last_sync_hash,         \* SyncState::last_sync_hash
    pending_sync,           \* SyncState::pending_sync
    sync_locked,            \* the sync_state mutex is held
    poisoned,               \* a holder of the sync_state mutex panicked
    pc,                     \* where each caller of sync() stands
    tip_hash,               \* sync(): tip_hash
    unconfirmed_txs,        \* sync(): unconfirmed_txs
    confirmed_txs,          \* sync(): confirmed_txs
    iters,                  \* loop iterations started so far
    seen,                   \* relevant entries and answers of the running unconfirmation sub-pass
    phases,                 \* what the running loop iteration did, in order
    notified,               \* the notifications the last step of sync() delivered
    last,                   \* the step sync() made last
    todo_txs,               \* detailed sub-pass: watched txids not yet visited
    todo_outs,              \* detailed sub-pass: watched outputs not yet visited
    direct,                 \* detailed sub-pass: what the first loop found for each txid
    ostatus,                \* detailed sub-pass: the last get_output_status call
    lookup,                 \* detailed sub-pass: the last get_confirmed_tx call
    reports,                \* detailed sub-pass: relevant txids reported, not yet visited
    queue_holder,           \* who holds the queue mutex (None when registration is atomic)
    call,                   \* what the running sync() call has delivered (NoCall: not kept)
    outputs,                \* sort_outputs: the vector `outputs`
    unsorted,               \* sort_outputs: the vector as it was passed in
    tie_breaker,            \* sort_outputs: the closure `tie_breaker`
    cursor,                 \* sort_outputs: where the sort stands
    tie_calls,              \* sort_outputs: the pairs tie_breaker was invoked on
    txn,                    \* maybe_add_change_output: the transaction `tx`
    orig_tx,                \* maybe_add_change_output: the transaction as it was passed in
    args,                   \* maybe_add_change_output: the other arguments
    ret,                    \* maybe_add_change_output: what it returned
    invoice,                \* bolt11_payment: the invoice `invoice`
    amount_msat,            \* bolt11_payment: the amount the caller passes
    from_fixed,             \* what payment_parameters_from_invoice returned
    from_variable           \* what payment_parameters_from_variable_amount_invoice returned

vars == <<remoteTip, envSteps, queue_transactions, queue_outputs,
          watched_transactions, watched_outputs, outputs_spends, last_sync_hash,
          pending_sync, sync_locked, poisoned, pc, tip_hash, unconfirmed_txs,
          confirmed_txs, iters, seen, phases, notified, last,
          todo_txs, todo_outs, direct, ostatus, lookup, reports, queue_holder, call,
          outputs, unsorted, tie_breaker, cursor, tie_calls, txn, orig_tx, args, ret,
          invoice, amount_msat, from_fixed, from_variable>>

envVars == <<remoteTip, envSteps>>
detailVars == <<todo_txs, todo_outs, direct, ostatus, lookup>>
reportVars == <<reports>>
lockVars == <<queue_holder>>
callVars == <<call>>
sortVars == <<outputs, unsorted, tie_breaker, cursor, tie_calls>>
changeVars == <<txn, orig_tx, args, ret>>
invoiceVars == <<invoice, amount_msat, from_fixed, from_variable>>
utilVars == <<sortVars, changeVars, invoiceVars>>

\* the notifications of one sync() call so far: loop iterations started,
\* best_block_updated rounds, non-empty batches of confirmation records;
\* the registrations the call merged that no committed confirmation
\* sub-pass has run over yet; the block of the last best_block_updated the
\* sinks got, from this call or an earlier one; the commits of the call; and
\* whether a call returned an error out of the loop since the last Ok(())
Call(iterations, best_blocks, batches) ==
    [iterations |-> iterations, best_blocks |-> best_blocks, batches |-> batches,
     merged |-> {}, sink_best |-> None, commits |-> 0, owed |-> FALSE]

\* the steps `return Err(TxSyncError::from(err))` of the loop
LoopErrors ==
    {"unconf_err", "unconf_tip_err", "best_block_err", "conf_failed", "conf_err",
     "conf_tip_err"}

NoCall == Call(-1, -1, -1)
queueVars == <<queue_transactions, queue_outputs>>
watchVars == <<watched_transactions, watched_outputs, outputs_spends>>
stateVars == <<watched_transactions, watched_outputs, outputs_spends, last_sync_hash, pending_sync>>
syncVars == <<sync_locked, poisoned, pc, tip_hash, unconfirmed_txs, confirmed_txs,
              iters, seen, phases, notified, last>>

Step(p, kind, why) == [kind |-> kind, why |-> why]

\* one get_confirmed_tx call: its arguments, the answers it got, its result
Lookup(txid, expected, known, answer, res) ==
    [txid |-> txid, expected |-> expected, known |-> known, answer |-> answer, res |-> res]

NoLookup == Lookup(None, None, NoHeight, NoAnswer, LookupResult("unasked", "none", NoTx, 0))

\* one get_output_status call: the outpoint, the answer, and whether the
\* spending txid it names was in confirmed_txs already
OutputQuery(outpoint, answer, had) == [outpoint |-> outpoint, answer |-> answer, had |-> had]

NoOutputQuery == OutputQuery(None, NoOutputAnswer, FALSE)

\* no call of sort_outputs is under way
SortIdle ==
    /\ outputs = <<>> /\ unsorted = <<>> /\ tie_breaker = None
    /\ cursor = 0 /\ tie_calls = {}

\* no call of maybe_add_change_output is under way
ChangeIdle ==
    /\ txn = [rest_weight |-> 0, output |-> <<>>] /\ orig_tx = txn
    /\ args = [input_value |-> -1, witness_max_weight |-> 0,
               feerate_sat_per_1000_weight |-> 0, change_destination_script |-> <<>>]
    /\ ret = [res |-> "none", weight |-> 0]

\* what a call of bolt11_payment returns: Err(()), or Ok with the payment
\* hash, the recipient onion fields and the route parameters
PaymentResult(res, payment_hash, payment_secret, payment_metadata, expiry_time, final_value_msat) ==
    [res |-> res, payment_hash |-> payment_hash, payment_secret |-> payment_secret,
     payment_metadata |-> payment_metadata, expiry_time |-> expiry_time,
     final_value_msat |-> final_value_msat]

NoPayment == PaymentResult("none", None, None, None, <<>>, 0)

Bolt11Invoice(amount, payment_hash, payment_secret, payment_metadata, expires_at) ==
    [amount |-> amount, payment_hash |-> payment_hash, payment_secret |-> payment_secret,
     payment_metadata |-> payment_metadata, expires_at |-> expires_at]

\* no function of bolt11_payment is under way
InvoiceIdle ==
    /\ invoice = Bolt11Invoice(<<>>, None, None, None, <<>>)
    /\ amount_msat = 0
    /\ from_fixed = NoPayment /\ from_variable = NoPayment

UtilIdle == SortIdle /\ ChangeIdle /\ InvoiceIdle

\* the client after EsploraSyncClient::from_client
InitClient ==
    /\ remoteTip = "A" /\ envSteps = 0
    /\ queue_transactions = {} /\ queue_outputs = {}
    /\ watched_transactions = {} /\ watched_outputs = {} /\ outputs_spends = {}
    /\ last_sync_hash = None /\ pending_sync = FALSE
    /\ sync_locked = FALSE /\ poisoned = FALSE
    /\ pc = [p \in Callers |-> "idle"]
    /\ tip_hash = [p \in Callers |-> None]
    /\ unconfirmed_txs = [p \in Callers |-> <<>>]
    /\ confirmed_txs = [p \in Callers |-> <<>>]
    /\ iters = 0
    /\ seen = <<>> /\ phases = <<>> /\ notified = <<>>
    /\ last = Step(None, "none", "none")
    /\ todo_txs = {} /\ todo_outs = {}
    /\ direct = [t \in Txids |-> "unseen"]
    /\ ostatus = NoOutputQuery /\ lookup = NoLookup /\ reports = <<>>
    /\ queue_holder = None

InitBase == InitClient /\ UtilIdle

Init == InitBase /\ call = NoCall

(***************************************************************************)
(* The environment: the chain moves, and Filter::register_tx /              *)
(* Filter::register_output are called at any time.                         *)
(***************************************************************************)
TipMoves ==
    /\ envSteps < MaxEnv
    /\ \E b \in Blocks \ {remoteTip} : remoteTip' = b
    /\ envSteps' = envSteps + 1
    /\ UNCHANGED <<queueVars, stateVars, syncVars, detailVars, callVars, reportVars, utilVars, lockVars>>

RegisterTx(txid) ==
    /\ envSteps < MaxEnv
    /\ queue_transactions' = queue_transactions \cup {txid}
    /\ envSteps' = envSteps + 1
    /\ UNCHANGED <<remoteTip, queue_outputs, stateVars, syncVars, detailVars, callVars, reportVars, utilVars, lockVars>>

RegisterOutput(outpoint) ==
    /\ envSteps < MaxEnv
    /\ queue_outputs' = queue_outputs \cup {outpoint}
    /\ envSteps' = envSteps + 1
    /\ UNCHANGED <<remoteTip, queue_transactions, stateVars, syncVars, detailVars, callVars, reportVars, utilVars, lockVars>>

(***************************************************************************)
(* sync(): the ways an iteration ends.                                     *)
(***************************************************************************)
\* the sub-pass results held by caller p are dropped
Dropped(p) ==
    /\ unconfirmed_txs' = [unconfirmed_txs EXCEPT ![p] = <<>>]
    /\ confirmed_txs' = [confirmed_txs EXCEPT ![p] = <<>>]
    /\ seen' = <<>>

\* sync() returns: the guard is dropped and the lock released
Return(p) ==
    /\ pc' = [pc EXCEPT ![p] = "idle"]
    /\ sync_locked' = FALSE
    /\ tip_hash' = [tip_hash EXCEPT ![p] = None]
    /\ Dropped(p)
    /\ phases' = <<>>
    /\ notified' = <<>>

Fail_keeps_pending_sync(p, kind, why) ==
    /\ pending_sync' = pending_sync
    /\ Return(p)
    /\ last' = Step(p, kind, why)

Fail_clears_pending_sync(p, kind, why) ==
    /\ pending_sync' = FALSE
    /\ Return(p)
    /\ last' = Step(p, kind, why)

\* the arms `Err(err) => { sync_state.pending_sync = true; return Err(..) }`
Fail(p, kind, why) ==
    /\ pending_sync' = TRUE
    /\ Return(p)
    /\ last' = Step(p, kind, why)

Restart_keeps_pending_sync(p, kind, why, tip) ==
    /\ pending_sync' = pending_sync
    /\ tip_hash' = [tip_hash EXCEPT ![p] = tip]
    /\ pc' = [pc EXCEPT ![p] = "loop"]
    /\ Dropped(p)
    /\ notified' = <<>>
    /\ last' = Step(p, kind, why)
    /\ UNCHANGED <<sync_locked, phases>>

Restart_keeps_tip(p, kind, why, tip) ==
    /\ pending_sync' = TRUE
    /\ tip_hash' = tip_hash
    /\ pc' = [pc EXCEPT ![p] = "loop"]
    /\ Dropped(p)
    /\ notified' = <<>>
    /\ last' = Step(p, kind, why)
    /\ UNCHANGED <<sync_locked, phases>>

\* the arms `sync_state.pending_sync = true; continue;`, tip being the value
\* of tip_hash the next iteration runs with
Restart(p, kind, why, tip) ==
    /\ pending_sync' = TRUE
    /\ tip_hash' = [tip_hash EXCEPT ![p] = tip]
    /\ pc' = [pc EXCEPT ![p] = "loop"]
    /\ Dropped(p)
    /\ notified' = <<>>
    /\ last' = Step(p, kind, why)
    /\ UNCHANGED <<sync_locked, phases>>

OnResult_inconsistency_escapes(res) ==
    IF res = "ok" THEN "continue" ELSE "return_err"

\* the match on Result<_, InternalError> in sync()
OnResult(res) ==
    IF res = "ok" THEN "continue"
    ELSE IF res = "incons" THEN "restart"
    ELSE "return_err"

TipUnchanged_always(check_tip_hash, current) == TRUE

\* `if check_tip_hash != tip_hash { .. continue }` not taken
TipUnchanged(check_tip_hash, current) == check_tip_hash = current

(***************************************************************************)
(* sync(): lock, first tip query, loop head.                               *)
(***************************************************************************)
LockFree_ignored == TRUE

\* the sync_state mutex can be taken
LockFree == ~sync_locked

\* self.sync_state.lock().unwrap()
Acquire(p) ==
    /\ pc[p] = "idle"
    /\ LockFree
    /\ IF poisoned
       THEN /\ pc' = [pc EXCEPT ![p] = "panicked"]
            /\ UNCHANGED sync_locked
            /\ last' = Step(p, "lock_poisoned", "none")
       ELSE /\ pc' = [pc EXCEPT ![p] = "tip"]
            /\ sync_locked' = TRUE
            /\ last' = Step(p, "acquire", "none")
    /\ notified' = <<>>
    /\ call' = IF call = NoCall THEN NoCall
               ELSE [Call(0, 0, 0) EXCEPT
                        !.sink_best = call.sink_best,
                        !.owed = IF last.kind \in LoopErrors THEN TRUE
                                 ELSE IF last.kind = "break" THEN FALSE
                                 ELSE call.owed]
    /\ UNCHANGED <<lockVars, reportVars, utilVars, detailVars, envVars, queueVars, stateVars, poisoned,
                   tip_hash, unconfirmed_txs, confirmed_txs, iters, seen, phases>>

\* let mut tip_hash = self.client.get_tip_hash()?
FirstTip(p) ==
    /\ pc[p] = "tip"
    /\ \E ok \in BOOLEAN :
        IF ok
        THEN /\ tip_hash' = [tip_hash EXCEPT ![p] = remoteTip]
             /\ pc' = [pc EXCEPT ![p] = "loop"]
             /\ last' = Step(p, "tip_ok", "none")
             /\ UNCHANGED <<sync_locked, unconfirmed_txs, confirmed_txs, seen,
                            phases, notified>>
        ELSE /\ Return(p)
             /\ last' = Step(p, "tip_err", "transport")
    /\ UNCHANGED <<lockVars, callVars, reportVars, utilVars, detailVars, envVars, queueVars, stateVars, poisoned, iters>>

\* FilterQueue::process_queues
ProcessQueues ==
    /\ watched_transactions' = watched_transactions \cup queue_transactions
    /\ watched_outputs' = watched_outputs \cup queue_outputs
    /\ queue_transactions' = {}
    /\ queue_outputs' = {}

NothingToDo_ignores_pending_sync(pending_registrations, tip_is_new) ==
    ~pending_registrations /\ ~tip_is_new

NothingToDo_ignores_tip(pending_registrations, tip_is_new) ==
    ~pending_sync /\ ~pending_registrations

\* `!sync_state.pending_sync && !pending_registrations && !tip_is_new`
NothingToDo(pending_registrations, tip_is_new) ==
    ~pending_sync /\ ~pending_registrations /\ ~tip_is_new

TipIsNew_never(tip, last_synced) == FALSE

\* `Some(tip_hash) != sync_state.last_sync_hash`
TipIsNew(tip, last_synced) == tip # last_synced

\* `process_queues(&mut sync_state)`, then break or start an iteration
MergeAndDecide(p) ==
    /\ ProcessQueues
    /\ LET pending_registrations == queue_transactions # {} \/ queue_outputs # {}
           tip_is_new == TipIsNew(tip_hash[p], last_sync_hash)
       IN IF NothingToDo(pending_registrations, tip_is_new)
          THEN /\ Return(p)
               /\ last' = Step(p, "break", "none")
               /\ UNCHANGED <<iters, call>>
          ELSE /\ iters < MaxIters
               /\ iters' = iters + 1
               /\ call' = IF call = NoCall THEN NoCall
                          ELSE [call EXCEPT !.iterations = @ + 1,
                                            !.merged = @ \cup queue_transactions
                                                         \cup queue_outputs]
               /\ pc' = [pc EXCEPT ![p] = IF tip_is_new THEN "unconf" ELSE "conf"]
               /\ phases' = <<>>
               /\ notified' = <<>>
               /\ last' = Step(p, "iterate", IF tip_is_new THEN "tip_is_new" ELSE "none")
               /\ UNCHANGED <<sync_locked, tip_hash, unconfirmed_txs, confirmed_txs, seen>>
    /\ UNCHANGED <<reportVars, utilVars, detailVars, envVars, outputs_spends, last_sync_hash,
                   pending_sync, poisoned>>

\* head of the loop, the queue mutex taken and released within the step
LoopTop(p) ==
    /\ pc[p] = "loop"
    /\ MergeAndDecide(p)
    /\ UNCHANGED lockVars

(***************************************************************************)
(* sync(): the unconfirmation sub-pass and its tip re-check.               *)
(***************************************************************************)
\* match self.get_unconfirmed_transactions(&confirmables)
Unconf(p) ==
    /\ pc[p] = "unconf"
    /\ \E s \in RelevantSeqs :
        /\ Reached(s)
        /\ LET r == GetUnconfirmedTransactions(s, <<>>) IN
           IF r.res = "ok"
           THEN /\ unconfirmed_txs' = [unconfirmed_txs EXCEPT ![p] = r.txs]
                /\ seen' = s
                /\ pc' = [pc EXCEPT ![p] = "unconf_check"]
                /\ phases' = Append(phases, "block_status_queries")
                /\ notified' = <<>>
                /\ last' = Step(p, "unconf_ok", "none")
                /\ UNCHANGED <<pending_sync, sync_locked, poisoned, tip_hash,
                               confirmed_txs>>
           ELSE IF r.res = "panic"
           THEN \* the guard is dropped while unwinding: the std mutex is poisoned
                /\ pc' = [pc EXCEPT ![p] = "panicked"]
                /\ sync_locked' = FALSE
                /\ poisoned' = TRUE
                /\ tip_hash' = [tip_hash EXCEPT ![p] = None]
                /\ Dropped(p)
                /\ phases' = <<>>
                /\ notified' = <<>>
                /\ last' = Step(p, "unconf_panic", "untracked_confirmation")
                /\ UNCHANGED pending_sync
           ELSE /\ Fail(p, "unconf_err", "transport")
                /\ UNCHANGED poisoned
    /\ UNCHANGED <<lockVars, callVars, reportVars, utilVars, detailVars, envVars, queueVars, watchVars, last_sync_hash, iters>>

\* SyncState::sync_unconfirmed_transactions
SyncUnconfirmedTransactions(txs) ==
    LET unconfirmed == SeqRange(txs)
        reverted == {e \in outputs_spends : e.txid \in unconfirmed}
    IN /\ notified' = UnconfirmedEvents(txs)
       /\ watched_transactions' = watched_transactions \cup unconfirmed
       /\ watched_outputs' = watched_outputs \cup {e.outpoint : e \in reverted}
       /\ outputs_spends' = outputs_spends \ reverted

\* match self.client.get_tip_hash() after the unconfirmation sub-pass
UnconfCheck(p) ==
    /\ pc[p] = "unconf_check"
    /\ \E ok \in BOOLEAN :
        IF ~ok
        THEN /\ Fail(p, "unconf_tip_err", "transport")
             /\ UNCHANGED watchVars
        ELSE IF ~TipUnchanged(remoteTip, tip_hash[p])
        THEN /\ Restart(p, "unconf_tip_restart", "tip_changed", remoteTip)
             /\ UNCHANGED watchVars
        ELSE /\ SyncUnconfirmedTransactions(unconfirmed_txs[p])
             /\ pc' = [pc EXCEPT ![p] = "best_block"]
             /\ Dropped(p)
             /\ phases' = Append(phases, "transaction_unconfirmed")
             /\ last' = Step(p, "unconf_delivered", "none")
             /\ UNCHANGED <<pending_sync, sync_locked, tip_hash>>
    /\ UNCHANGED <<lockVars, callVars, reportVars, utilVars, detailVars, envVars, queueVars, last_sync_hash, poisoned, iters>>

(***************************************************************************)
(* sync_best_block_updated.                                                *)
(***************************************************************************)
\* the answers of get_header_by_hash and get_block_status for the tip
TipAnswer(header, status, in_best_chain, height) ==
    [header |-> header, status |-> status, in_best_chain |-> in_best_chain, height |-> height]

TipAnswers ==
    {TipAnswer("err", "unasked", FALSE, NoHeight), TipAnswer("ok", "err", FALSE, NoHeight)}
    \cup {TipAnswer("ok", "ok", b, h) : b \in BOOLEAN, h \in TipHeights \cup {NoHeight}}

SyncBestBlockUpdated_accepts_stale_tip(a) ==
    IF a.header = "err" \/ a.status = "err" THEN "err" ELSE "ok"

\* Result<(), InternalError> of sync_best_block_updated
SyncBestBlockUpdated(a) ==
    IF a.header = "err" \/ a.status = "err" THEN "err"
    ELSE IF a.in_best_chain THEN "ok"
    ELSE "incons"

\* SyncState::prune_output_spends
PruneOutputSpends(cur_height) ==
    {e \in outputs_spends : cur_height < e.block_height + ANTI_REORG_DELAY - 1}

\* match self.sync_best_block_updated(&confirmables, &mut sync_state, &tip_hash)
BestBlock(p) ==
    /\ pc[p] = "best_block"
    /\ \E a \in TipAnswers :
        LET r == SyncBestBlockUpdated(a) IN
        IF OnResult(r) = "return_err"
        THEN /\ Fail(p, "best_block_err",
                     IF r = "incons" THEN "tip_not_in_best_chain" ELSE "transport")
             /\ UNCHANGED <<outputs_spends, call>>
        ELSE IF OnResult(r) = "restart"
        THEN /\ Restart(p, "best_block_restart", "tip_not_in_best_chain", tip_hash[p])
             /\ UNCHANGED <<outputs_spends, call>>
        ELSE /\ IF a.in_best_chain /\ a.height # NoHeight
                THEN /\ notified' = ToEachSink("best_block_updated", None, tip_hash[p],
                                               a.height, 0, 0)
                     /\ outputs_spends' = PruneOutputSpends(a.height)
                     /\ phases' = Append(phases, "best_block_updated")
                     /\ last' = Step(p, "best_block_notified", "none")
                     /\ call' = IF call = NoCall THEN NoCall
                                ELSE [call EXCEPT !.best_blocks = @ + 1,
                                                  !.sink_best = tip_hash[p]]
                ELSE /\ notified' = <<>>
                     /\ UNCHANGED <<phases, outputs_spends, call>>
                     /\ last' = Step(p, "best_block_silent", "none")
             /\ pc' = [pc EXCEPT ![p] = "conf"]
             /\ UNCHANGED <<pending_sync, sync_locked, tip_hash, unconfirmed_txs,
                            confirmed_txs, seen>>
    /\ UNCHANGED <<lockVars, reportVars, utilVars, detailVars, envVars, queueVars, watched_transactions, watched_outputs,
                   last_sync_hash, poisoned, iters>>

(***************************************************************************)
(* sync(): the confirmation sub-pass, its tip re-check and the commit.     *)
(***************************************************************************)
\* match self.get_confirmed_transactions(&sync_state)
Conf(p) ==
    /\ pc[p] = "conf"
    /\ \E r \in ConfirmedResults[watched_transactions, watched_outputs] :
        IF OnResult(r.res) = "return_err"
        THEN Fail(p, IF r.res = "failed" THEN "conf_failed" ELSE "conf_err", r.why)
        ELSE IF OnResult(r.res) = "restart"
        THEN Restart(p, "conf_restart", r.why, tip_hash[p])
        ELSE /\ confirmed_txs' = [confirmed_txs EXCEPT ![p] = r.txs]
             /\ phases' = Append(phases, "confirmation_lookups")
             /\ notified' = <<>>
             /\ pc' = [pc EXCEPT ![p] = "conf_check"]
             /\ last' = Step(p, "conf_ok", "none")
             /\ UNCHANGED <<pending_sync, sync_locked, tip_hash, unconfirmed_txs, seen>>
    /\ UNCHANGED <<lockVars, callVars, reportVars, utilVars, detailVars, envVars, queueVars, watchVars, last_sync_hash, poisoned, iters>>

\* SyncState::sync_confirmed_transactions
SyncConfirmedTransactions(txs) ==
    LET spent == {OutputSpend(txs[i].txid, txs[i].block_height, o) :
                     i \in 1..Len(txs), o \in Outpoints}
        moved == {e \in spent : e.outpoint \in TxInputs[e.txid] \cap watched_outputs}
    IN /\ notified' = ConfirmedEvents(txs)
       /\ watched_transactions' = watched_transactions \ {txs[i].txid : i \in 1..Len(txs)}
       /\ watched_outputs' = watched_outputs \ {e.outpoint : e \in moved}
       /\ outputs_spends' = outputs_spends \cup moved

\* match self.client.get_tip_hash() after the confirmation sub-pass
ConfCheck(p) ==
    /\ pc[p] = "conf_check"
    /\ \E ok \in BOOLEAN :
        IF ~ok
        THEN /\ Fail(p, "conf_tip_err", "transport")
             /\ UNCHANGED <<watchVars, last_sync_hash, call>>
        ELSE IF ~TipUnchanged(remoteTip, tip_hash[p])
        THEN /\ Restart(p, "conf_tip_restart", "tip_changed", remoteTip)
             /\ UNCHANGED <<watchVars, last_sync_hash, call>>
        ELSE /\ SyncConfirmedTransactions(confirmed_txs[p])
             /\ last_sync_hash' = tip_hash[p]
             /\ pending_sync' = FALSE
             /\ pc' = [pc EXCEPT ![p] = "loop"]
             /\ Dropped(p)
             /\ phases' = Append(phases, "transactions_confirmed")
             /\ last' = Step(p, "commit", "none")
             /\ call' = IF call = NoCall THEN NoCall
                        ELSE [call EXCEPT
                                 !.batches = IF confirmed_txs[p] = <<>> THEN @ ELSE @ + 1,
                                 !.commits = @ + 1,
                                 !.merged = @ \ (watched_transactions \cup watched_outputs)]
             /\ UNCHANGED <<sync_locked, tip_hash>>
    /\ UNCHANGED <<lockVars, reportVars, utilVars, detailVars, envVars, queueVars, poisoned, iters>>

Next ==
    \/ TipMoves
    \/ \E t \in Txids : RegisterTx(t)
    \/ \E o \in Outpoints : RegisterOutput(o)
    \/ \E p \in Callers : Acquire(p)
    \/ \E p \in Callers : FirstTip(p)
    \/ \E p \in Callers : LoopTop(p)
    \/ \E p \in Callers : Unconf(p)
    \/ \E p \in Callers : UnconfCheck(p)
    \/ \E p \in Callers : BestBlock(p)
    \/ \E p \in Callers : Conf(p)
    \/ \E p \in Callers : ConfCheck(p)

Spec == Init /\ [][Next]_vars

(***************************************************************************)
(* One confirmation sub-pass in detail.  Caller "s1" stands in the loop of  *)
(* sync() before get_confirmed_transactions, the tip being new and the     *)
(* unconfirmation sub-pass done; the watch set is any of at most           *)
(* MaxCandidates entries.  Each step is one turn of a loop of              *)
(* get_confirmed_transactions, with the answers of the server kept.        *)
(***************************************************************************)
InitConf ==
    /\ remoteTip = "A" /\ envSteps = 0
    /\ queue_transactions = {} /\ queue_outputs = {}
    /\ watched_transactions \in SUBSET Txids
    /\ watched_outputs \in SUBSET Outpoints
    /\ Cardinality(watched_transactions) + Cardinality(watched_outputs) <= MaxCandidates
    /\ outputs_spends = {}
    /\ last_sync_hash = None /\ pending_sync = FALSE
    /\ sync_locked = TRUE /\ poisoned = FALSE
    /\ pc = [p \in Callers |-> IF p = "s1" THEN "conf" ELSE "idle"]
    /\ tip_hash = [p \in Callers |-> IF p = "s1" THEN "A" ELSE None]
    /\ unconfirmed_txs = [p \in Callers |-> <<>>]
    /\ confirmed_txs = [p \in Callers |-> <<>>]
    /\ iters = 1
    /\ seen = <<>> /\ notified = <<>>
    /\ phases = <<"block_status_queries", "transaction_unconfirmed">>
    /\ last = Step("s1", "best_block_silent", "none")
    /\ todo_txs = watched_transactions /\ todo_outs = watched_outputs
    /\ direct = [t \in Txids |-> "unseen"]
    /\ ostatus = NoOutputQuery /\ lookup = NoLookup /\ reports = <<>>
    /\ queue_holder = None /\ call = NoCall
    /\ UtilIdle

\* what sync() makes of one turn's result r: the `?` hands an error to the
\* match in sync(), otherwise the loop goes on with the list r.txs
AfterTurn(p, r) ==
    IF OnResult(r.res) = "return_err"
    THEN Fail(p, IF r.res = "failed" THEN "conf_failed" ELSE "conf_err", r.why)
    ELSE IF OnResult(r.res) = "restart"
    THEN Restart(p, "conf_restart", r.why, tip_hash[p])
    ELSE /\ confirmed_txs' = [confirmed_txs EXCEPT ![p] = r.txs]
         /\ last' = Step(p, "conf_turn", r.why)
         /\ UNCHANGED <<pending_sync, sync_locked, pc, tip_hash, unconfirmed_txs, seen,
                        phases, notified>>

\* one turn of `for txid in &sync_state.watched_transactions`
ConfTx(p) ==
    /\ pc[p] = "conf"
    /\ \E txid \in todo_txs :
        /\ todo_txs' = todo_txs \ {txid}
        /\ \E a \in IF TxStepLooksUp(confirmed_txs[p], txid)
                    THEN AnswersFor(txid, None, NoHeight) ELSE {NoAnswer} :
            LET r == GetConfirmedTx(txid, None, NoHeight, a) IN
            /\ lookup' = IF a = NoAnswer THEN NoLookup
                         ELSE Lookup(txid, None, NoHeight, a, r)
            /\ direct' = [direct EXCEPT ![txid] = IF a = NoAnswer THEN "skipped" ELSE r.res]
            /\ AfterTurn(p, WatchedTxStep(confirmed_txs[p], txid, a))
    /\ UNCHANGED <<lockVars, callVars, reportVars, utilVars, envVars, queueVars, watchVars, last_sync_hash, poisoned, iters,
                   todo_outs, ostatus>>

\* one turn of `for (_, output) in &sync_state.watched_outputs`
ConfOutput(p) ==
    /\ pc[p] = "conf"
    /\ todo_txs = {}
    /\ \E outpoint \in todo_outs :
        /\ todo_outs' = todo_outs \ {outpoint}
        /\ \E o \in OutputAnswers :
            /\ ostatus' = OutputQuery(outpoint, o, HasTxid(confirmed_txs[p], o.txid))
            /\ \E a \in IF OutputStepLooksUp(confirmed_txs[p], o)
                        THEN AnswersFor(o.txid, o.block_hash, o.block_height)
                        ELSE {NoAnswer} :
                /\ lookup' = IF a = NoAnswer THEN NoLookup
                             ELSE Lookup(o.txid, o.block_hash, o.block_height, a,
                                         GetConfirmedTx(o.txid, o.block_hash, o.block_height, a))
                /\ AfterTurn(p, WatchedOutputStep(confirmed_txs[p], o, a))
    /\ UNCHANGED <<lockVars, callVars, reportVars, utilVars, envVars, queueVars, watchVars, last_sync_hash, poisoned, iters,
                   todo_txs, direct>>

\* the sort that ends get_confirmed_transactions; sync() holds its result
ConfSort(p) ==
    /\ pc[p] = "conf"
    /\ todo_txs = {} /\ todo_outs = {}
    /\ \E sorted \in SortByHeightPos(confirmed_txs[p]) :
        confirmed_txs' = [confirmed_txs EXCEPT ![p] = sorted]
    /\ pc' = [pc EXCEPT ![p] = "conf_check"]
    /\ phases' = Append(phases, "confirmation_lookups")
    /\ notified' = <<>>
    /\ last' = Step(p, "conf_ok", "none")
    /\ lookup' = NoLookup /\ ostatus' = NoOutputQuery
    /\ UNCHANGED <<lockVars, callVars, reportVars, utilVars, envVars, queueVars, stateVars, sync_locked, poisoned, tip_hash,
                   unconfirmed_txs, iters, seen, todo_txs, todo_outs, direct>>

\* the head of the loop after the commit
AfterCommit(p) ==
    /\ last.kind = "commit"
    /\ LoopTop(p)

NextConf ==
    \/ \E p \in Callers : ConfTx(p)
    \/ \E p \in Callers : ConfOutput(p)
    \/ \E p \in Callers : ConfSort(p)
    \/ \E p \in Callers : ConfCheck(p)
    \/ \E p \in Callers : AfterCommit(p)

SpecConf == InitConf /\ [][NextConf]_vars

(***************************************************************************)
(* One unconfirmation sub-pass in detail.  Caller "s1" has found the tip   *)
(* new and calls get_unconfirmed_transactions; the sinks report any of at  *)
(* most MaxReports entries, visited one per step.                          *)
(***************************************************************************)
InitUnconf ==
    /\ remoteTip = "A" /\ envSteps = 0
    /\ queue_transactions = {} /\ queue_outputs = {}
    /\ watched_transactions = {} /\ watched_outputs = {}
    /\ outputs_spends = {}
    /\ last_sync_hash = None /\ pending_sync = FALSE
    /\ sync_locked = TRUE /\ poisoned = FALSE
    /\ pc = [p \in Callers |-> IF p = "s1" THEN "unconf" ELSE "idle"]
    /\ tip_hash = [p \in Callers |-> IF p = "s1" THEN "A" ELSE None]
    /\ unconfirmed_txs = [p \in Callers |-> <<>>]
    /\ confirmed_txs = [p \in Callers |-> <<>>]
    /\ iters = 1
    /\ seen = <<>> /\ notified = <<>> /\ phases = <<>>
    /\ last = Step("s1", "iterate", "tip_is_new")
    /\ todo_txs = {} /\ todo_outs = {}
    /\ direct = [t \in Txids |-> "unseen"]
    /\ ostatus = NoOutputQuery /\ lookup = NoLookup
    /\ reports \in ReportSeqs
    /\ queue_holder = None /\ call = NoCall
    /\ UtilIdle

\* one turn of `for (txid, _conf_height, block_hash_opt) in relevant_txids`
UnconfTurn(p) ==
    /\ pc[p] = "unconf"
    /\ reports # <<>>
    /\ \E answer \in IF Head(reports).block_hash = None THEN {"unasked"}
                     ELSE {"in", "out", "err"} :
        LET e == RelevantEntry(Head(reports).txid, Head(reports).block_hash, answer)
            r == GetUnconfirmedTransactions(<<e>>, unconfirmed_txs[p])
        IN IF r.res = "ok"
           THEN /\ unconfirmed_txs' = [unconfirmed_txs EXCEPT ![p] = r.txs]
                /\ seen' = Append(seen, e)
                /\ reports' = Tail(reports)
                /\ last' = Step(p, "unconf_turn", answer)
                /\ UNCHANGED <<pending_sync, sync_locked, poisoned, pc, tip_hash,
                               confirmed_txs, phases, notified>>
           ELSE IF r.res = "panic"
           THEN /\ pc' = [pc EXCEPT ![p] = "panicked"]
                /\ sync_locked' = FALSE
                /\ poisoned' = TRUE
                /\ tip_hash' = [tip_hash EXCEPT ![p] = None]
                /\ Dropped(p)
                /\ phases' = <<>>
                /\ notified' = <<>>
                /\ last' = Step(p, "unconf_panic", "untracked_confirmation")
                /\ UNCHANGED <<pending_sync, reports>>
           ELSE /\ Fail(p, "unconf_err", "transport")
                /\ reports' = Tail(reports)
                /\ UNCHANGED poisoned
    /\ UNCHANGED <<callVars, lockVars, utilVars, detailVars, envVars, queueVars, watchVars, last_sync_hash, iters>>

\* `Ok(unconfirmed_txs)`: sync() holds the list
UnconfDone(p) ==
    /\ pc[p] = "unconf"
    /\ reports = <<>>
    /\ pc' = [pc EXCEPT ![p] = "unconf_check"]
    /\ phases' = Append(phases, "block_status_queries")
    /\ notified' = <<>>
    /\ last' = Step(p, "unconf_ok", "none")
    /\ UNCHANGED <<lockVars, callVars, reportVars, utilVars, detailVars, envVars, queueVars, stateVars, sync_locked,
                   poisoned, tip_hash, unconfirmed_txs, confirmed_txs, iters, seen>>

NextUnconf ==
    \/ \E p \in Callers : UnconfTurn(p)
    \/ \E p \in Callers : UnconfDone(p)
    \/ \E p \in Callers : UnconfCheck(p)

SpecUnconf == InitUnconf /\ [][NextUnconf]_vars

(***************************************************************************)
(* The queue mutex in detail.  Registrations and the merge of sync() take  *)
(* self.queue.lock() in one step and release it in the next; the sync      *)
(* passes run as in Spec, against a tip that stays.                        *)
(***************************************************************************)
Registrants == {"r1", "r2"}

QueueFree_waits_for_sync == queue_holder = None /\ ~sync_locked

\* self.queue.lock() can be taken
QueueFree == queue_holder = None

\* `let mut locked_queue = self.queue.lock().unwrap()` of register_tx / register_output
RegLock(r) ==
    /\ envSteps < MaxEnv
    /\ QueueFree
    /\ queue_holder' = r
    /\ UNCHANGED <<envVars, queueVars, stateVars, syncVars, detailVars, callVars, reportVars, utilVars>>

RegInsertTx_replaces(r, txid) ==
    /\ queue_holder = r
    /\ queue_transactions' = {txid}
    /\ envSteps' = envSteps + 1
    /\ queue_holder' = None
    /\ UNCHANGED <<remoteTip, queue_outputs, stateVars, syncVars, detailVars, callVars, reportVars, utilVars>>

\* locked_queue.transactions.insert(*txid); the guard is dropped
RegInsertTx(r, txid) ==
    /\ queue_holder = r
    /\ queue_transactions' = queue_transactions \cup {txid}
    /\ envSteps' = envSteps + 1
    /\ queue_holder' = None
    /\ UNCHANGED <<remoteTip, queue_outputs, stateVars, syncVars, detailVars, callVars, reportVars, utilVars>>

\* locked_queue.outputs.insert(outpoint, output); the guard is dropped
RegInsertOutput(r, outpoint) ==
    /\ queue_holder = r
    /\ queue_outputs' = queue_outputs \cup {outpoint}
    /\ envSteps' = envSteps + 1
    /\ queue_holder' = None
    /\ UNCHANGED <<remoteTip, queue_transactions, stateVars, syncVars, detailVars, callVars, reportVars, utilVars>>

\* `self.queue.lock().unwrap()` at the head of the loop
LoopLock(p) ==
    /\ pc[p] = "loop"
    /\ iters < MaxIters
    /\ QueueFree
    /\ queue_holder' = p
    /\ pc' = [pc EXCEPT ![p] = "merge"]
    /\ last' = Step(p, "queue_locked", "none")
    /\ UNCHANGED <<envVars, queueVars, stateVars, sync_locked, poisoned, tip_hash,
                   unconfirmed_txs, confirmed_txs, iters, seen, phases, notified,
                   detailVars, callVars, reportVars, utilVars>>

\* process_queues under the queue mutex; the temporary guard is dropped at
\* the end of the statement
LoopMerge(p) ==
    /\ pc[p] = "merge"
    /\ queue_holder = p
    /\ MergeAndDecide(p)
    /\ queue_holder' = None

NextQueue ==
    \/ \E r \in Registrants : RegLock(r)
    \/ \E r \in Registrants, t \in Txids : RegInsertTx(r, t)
    \/ \E r \in Registrants, o \in Outpoints : RegInsertOutput(r, o)
    \/ \E p \in Callers : Acquire(p)
    \/ \E p \in Callers : FirstTip(p)
    \/ \E p \in Callers : LoopLock(p)
    \/ \E p \in Callers : LoopMerge(p)
    \/ \E p \in Callers : Unconf(p)
    \/ \E p \in Callers : UnconfCheck(p)
    \/ \E p \in Callers : BestBlock(p)
    \/ \E p \in Callers : Conf(p)
    \/ \E p \in Callers : ConfCheck(p)

SpecQueue == Init /\ [][NextQueue]_vars

(***************************************************************************)
(* One thread calling sync() again and again, with registrations of        *)
(* transactions and a moving tip as in Spec, and with what each call       *)
(* delivered kept in `call`.                                               *)
(***************************************************************************)
InitCall == InitBase /\ call = Call(0, 0, 0)

NextCall ==
    \/ TipMoves
    \/ \E t \in Txids : RegisterTx(t)
    \/ Acquire("s1")
    \/ FirstTip("s1")
    \/ LoopTop("s1")
    \/ Unconf("s1")
    \/ UnconfCheck("s1")
    \/ BestBlock("s1")
    \/ Conf("s1")
    \/ ConfCheck("s1")

SpecCall == InitCall /\ [][NextCall]_vars

(***************************************************************************)
(* The same thread, with one transaction and one output registered at any  *)
(* time, to follow what a call merged into the Watch Set.                  *)
(***************************************************************************)
NextMerge ==
    \/ TipMoves
    \/ RegisterTx("t1")
    \/ RegisterOutput("o1")
    \/ Acquire("s1")
    \/ FirstTip("s1")
    \/ LoopTop("s1")
    \/ Unconf("s1")
    \/ UnconfCheck("s1")
    \/ BestBlock("s1")
    \/ Conf("s1")
    \/ ConfCheck("s1")

SpecMerge == InitCall /\ [][NextMerge]_vars

(***************************************************************************)
(* The same thread after a first sync() that found the tip A, told the     *)
(* sinks of it and committed it with nothing to watch.                     *)
(***************************************************************************)
InitBest ==
    /\ remoteTip = "A" /\ envSteps = 0
    /\ queue_transactions = {} /\ queue_outputs = {}
    /\ watched_transactions = {} /\ watched_outputs = {}
    /\ outputs_spends = {}
    /\ last_sync_hash = "A" /\ pending_sync = FALSE
    /\ sync_locked = FALSE /\ poisoned = FALSE
    /\ pc = [p \in Callers |-> "idle"]
    /\ tip_hash = [p \in Callers |-> None]
    /\ unconfirmed_txs = [p \in Callers |-> <<>>]
    /\ confirmed_txs = [p \in Callers |-> <<>>]
    /\ iters = 0
    /\ seen = <<>> /\ notified = <<>> /\ phases = <<>>
    /\ last = Step("s1", "break", "none")
    /\ todo_txs = {} /\ todo_outs = {}
    /\ direct = [t \in Txids |-> "unseen"]
    /\ ostatus = NoOutputQuery /\ lookup = NoLookup /\ reports = <<>>
    /\ queue_holder = None
    /\ call = [Call(1, 1, 0) EXCEPT !.sink_best = "A"]
    /\ UtilIdle

SpecBest == InitBest /\ [][NextCall]_vars

(***************************************************************************)
(* sync() to its return.  The loop has no bound of its own: once MaxIters  *)
(* iterations are counted, further ones start without being counted.  The  *)
(* thread runs whenever it can (weak fairness of its steps, each query     *)
(* being answered within the step); the tip and the registrations change   *)
(* at most MaxEnv times.                                                   *)
(***************************************************************************)
\* head of the loop with the count exhausted: merge, then the next iteration
LoopTopUncounted(p) ==
    /\ pc[p] = "loop"
    /\ iters = MaxIters
    /\ ProcessQueues
    /\ LET pending_registrations == queue_transactions # {} \/ queue_outputs # {}
           tip_is_new == TipIsNew(tip_hash[p], last_sync_hash)
       IN /\ ~NothingToDo(pending_registrations, tip_is_new)
          /\ pc' = [pc EXCEPT ![p] = IF tip_is_new THEN "unconf" ELSE "conf"]
          /\ phases' = <<>>
          /\ notified' = <<>>
          /\ last' = Step(p, "iterate", IF tip_is_new THEN "tip_is_new" ELSE "none")
    /\ UNCHANGED <<sync_locked, tip_hash, unconfirmed_txs, confirmed_txs, seen, iters,
                   lockVars, callVars, reportVars, utilVars, detailVars, envVars,
                   outputs_spends, last_sync_hash, pending_sync, poisoned>>

\* the steps of one thread in sync()
SyncStep(p) ==
    \/ Acquire(p)
    \/ FirstTip(p)
    \/ LoopTop(p)
    \/ LoopTopUncounted(p)
    \/ Unconf(p)
    \/ UnconfCheck(p)
    \/ BestBlock(p)
    \/ Conf(p)
    \/ ConfCheck(p)

NextLive ==
    \/ TipMoves
    \/ RegisterTx("t1")
    \/ SyncStep("s1")

SpecLive == Init /\ [][NextLive]_vars /\ WF_vars(SyncStep("s1"))

(***************************************************************************)
(* transaction_utils::sort_outputs.  An entry of `outputs` is a pair        *)
(* <<TxOut, T>>; a TxOut is its value and the bytes of its script_pubkey.   *)
(***************************************************************************)
MaxOutputs == 3         \* longest vector passed to sort_outputs

TxOut(value, script_pubkey) == [value |-> value, script_pubkey |-> script_pubkey]

Values == {1, 2}
Scripts == {<<1>>, <<1, 0>>, <<0, 2>>}
Tags == {0, 1}
Entries == {<<TxOut(v, s), t>> : v \in Values, s \in Scripts, t \in Tags}
OutputVecs == UNION {[1..n -> Entries] : n \in 0..MaxOutputs}

\* Ord::cmp of two integers
IntCmp(x, y) == IF x < y THEN "Less" ELSE IF x > y THEN "Greater" ELSE "Equal"

\* Ord::cmp of two byte slices: lexicographic, a proper prefix is less
RECURSIVE SliceCmp(_, _)
SliceCmp(x, y) ==
    IF x = <<>> /\ y = <<>> THEN "Equal"
    ELSE IF x = <<>> THEN "Less"
    ELSE IF y = <<>> THEN "Greater"
    ELSE IF Head(x) # Head(y) THEN IntCmp(Head(x), Head(y))
    ELSE SliceCmp(Tail(x), Tail(y))

\* the closures passed as tie_breaker: the order of T, its reverse, no order
TieBreakers == {"cmp", "reverse", "equal"}

TieBreaker(c, x, y) ==
    IF c = "cmp" THEN IntCmp(x, y)
    ELSE IF c = "reverse" THEN IntCmp(y, x)
    ELSE "Equal"

\* Ordering::then_with evaluates its closure only on Equal: is tie_breaker
\* invoked when a and b are compared?
InvokesTieBreaker(a, b) ==
    /\ IntCmp(a[1].value, b[1].value) = "Equal"
    /\ SliceCmp(a[1].script_pubkey, b[1].script_pubkey) = "Equal"

\* the closure handed to sort_unstable_by
OutputCmp_ignores_script(c, a, b) ==
    IF IntCmp(a[1].value, b[1].value) # "Equal" THEN IntCmp(a[1].value, b[1].value)
    ELSE TieBreaker(c, a[2], b[2])

OutputCmp(c, a, b) ==
    IF IntCmp(a[1].value, b[1].value) # "Equal" THEN IntCmp(a[1].value, b[1].value)
    ELSE IF SliceCmp(a[1].script_pubkey, b[1].script_pubkey) # "Equal"
        THEN SliceCmp(a[1].script_pubkey, b[1].script_pubkey)
    ELSE TieBreaker(c, a[2], b[2])

InitSort ==
    /\ InitClient /\ call = NoCall /\ ChangeIdle /\ InvoiceIdle
    /\ unsorted \in OutputVecs
    /\ outputs = unsorted
    /\ tie_breaker \in TieBreakers
    /\ cursor = 2
    /\ tie_calls = {}

\* the element at position at sinks towards the head while it is less than
\* its left neighbour (a vector this short is sorted by insertion)
RECURSIVE InsertTail(_, _, _)
InsertTail(c, v, at) ==
    IF at >= 2 /\ OutputCmp(c, v[at], v[at - 1]) = "Less"
    THEN InsertTail(c, [v EXCEPT ![at] = v[at - 1], ![at - 1] = v[at]], at - 1)
    ELSE v

\* the pairs compared while the element at position at sinks
RECURSIVE Compared(_, _, _)
Compared(c, v, at) ==
    IF at < 2 THEN {}
    ELSE {<<v[at], v[at - 1]>>} \cup
         (IF OutputCmp(c, v[at], v[at - 1]) = "Less"
          THEN Compared(c, [v EXCEPT ![at] = v[at - 1], ![at - 1] = v[at]], at - 1)
          ELSE {})

\* outputs.sort_unstable_by(..): one more element is put in its place
SortInsert ==
    /\ tie_breaker # None
    /\ cursor <= Len(outputs)
    /\ outputs' = InsertTail(tie_breaker, outputs, cursor)
    /\ tie_calls' = tie_calls \cup
            {pair \in Compared(tie_breaker, outputs, cursor) : InvokesTieBreaker(pair[1], pair[2])}
    /\ cursor' = cursor + 1
    /\ UNCHANGED <<unsorted, tie_breaker, changeVars, invoiceVars>>
    /\ UNCHANGED <<envVars, queueVars, stateVars, syncVars, detailVars, callVars, reportVars, lockVars>>

\* sort_outputs has returned
Sorted == tie_breaker # None /\ cursor > Len(outputs)

NextSort == SortInsert

SpecSort == InitSort /\ [][NextSort]_vars

(***************************************************************************)
(* transaction_utils::maybe_add_change_output.  Amounts are in satoshi on a *)
(* reduced scale: U64_MAX stands for the largest u64 and MAX_MONEY for      *)
(* Amount::MAX_MONEY, in their order 0 < MAX_MONEY < U64_MAX.               *)
(***************************************************************************)
U64_MAX == 65535        \* stands for u64::MAX, the largest Amount
MAX_MONEY == 20000      \* stands for Amount::MAX_MONEY
MaxInput == 700         \* largest input_value tried below MAX_MONEY

\* VarInt(n).size() (five bytes and more are for counts no vector here has)
VarIntSize(n) == IF n <= 252 THEN 1 ELSE IF n <= 65535 THEN 3 ELSE 5

\* length of TxOut::consensus_encode: value, script length, script
TxOutLen(o) == 8 + VarIntSize(Len(o.script_pubkey)) + Len(o.script_pubkey)

\* encoded length of the outputs from..to (summed by halves)
RECURSIVE OutputsLen(_, _, _)
OutputsLen(output, from, to) ==
    IF from > to THEN 0
    ELSE IF from = to THEN TxOutLen(output[from])
    ELSE OutputsLen(output, from, (from + to) \div 2)
            + OutputsLen(output, (from + to) \div 2 + 1, to)

\* a transaction: the weight of all but its output vector, and the outputs
Transaction(rest_weight, output) == [rest_weight |-> rest_weight, output |-> output]

\* tx.weight().to_wu(): every byte of the output vector weighs four
Weight(t) == t.rest_weight + 4 * (VarIntSize(Len(t.output)) + OutputsLen(t.output, 1, Len(t.output)))

\* the sum of the values of the outputs from..to (summed by halves)
RECURSIVE TotalValue(_, _, _)
TotalValue(output, from, to) ==
    IF from > to THEN 0
    ELSE IF from = to THEN output[from].value
    ELSE TotalValue(output, from, (from + to) \div 2)
            + TotalValue(output, (from + to) \div 2 + 1, to)

\* ScriptBuf::is_op_return, ScriptBuf::is_witness_program
IsOpReturn(script) == Len(script) >= 1 /\ script[1] = 106

IsWitnessProgram(script) ==
    /\ Len(script) >= 4 /\ Len(script) <= 42
    /\ (script[1] = 0 \/ (script[1] >= 81 /\ script[1] <= 96))
    /\ script[2] >= 2 /\ script[2] <= 40
    /\ Len(script) = script[2] + 2

\* ScriptBuf::minimal_non_dust: the output and the input that spends it, at
\* the dust relay fee of 3000 sat per 1000 bytes
MinimalNonDust(script) ==
    LET len == VarIntSize(Len(script)) + Len(script) IN
    (3000 * (IF IsOpReturn(script) THEN 0
             ELSE IF IsWitnessProgram(script) THEN 32 + 4 + 1 + (107 \div 4) + 4 + 8 + len
             ELSE 32 + 4 + 1 + 107 + 4 + 8 + len)) \div 1000

P2PKH == <<118, 169, 20>> \o [i \in 1..20 |-> 0] \o <<136, 172>>
P2WPKH == <<0, 20>> \o [i \in 1..20 |-> 0]
ChangeScripts == {P2PKH, P2WPKH, <<82>>, <<106>>}

\* the transactions passed in: no output, one, two, and two whose sum
\* overflows an Amount
OutputLists ==
    { <<>>,
      <<TxOut(100, <<81>>)>>,
      <<TxOut(100, <<81>>), TxOut(50, P2WPKH)>>,
      <<TxOut(1, <<>>), TxOut(U64_MAX, <<>>)>> }

Transactions == {Transaction(w, o) : w \in {38, 200}, o \in OutputLists}

\* a transaction of 252 outputs: one more makes the output count two bytes longer
ManyOutputs == Transaction(38, [i \in 1..252 |-> TxOut(1, <<>>)])

Args(input_value, witness_max_weight, feerate_sat_per_1000_weight, change_destination_script) ==
    [input_value |-> input_value, witness_max_weight |-> witness_max_weight,
     feerate_sat_per_1000_weight |-> feerate_sat_per_1000_weight,
     change_destination_script |-> change_destination_script]

ArgsSet ==
    {Args(i, w, f, c) : i \in (0..MaxInput) \cup {MAX_MONEY, MAX_MONEY + 1},
                        w \in {0, 400}, f \in {0, 1, 250}, c \in ChangeScripts}

\* the arguments tried with ManyOutputs: input values about the least
\* that leave change
ManyOutputsArgs ==
    {a \in ArgsSet : a.input_value \in (250..270) \cup (540..560)}

\* `for output in tx.output.iter() { output_value += output.value; .. }`:
\* Amount's += panics when the sum passes u64::MAX
\* the turns from..to of the loop, the left half first, then, unless that
\* returned or panicked, the right half
RECURSIVE OutputValue(_, _, _, _, _)
OutputValue(output, from, to, output_value, input_value) ==
    IF from > to THEN [res |-> "ok", value |-> output_value]
    ELSE IF from = to THEN
        IF output_value + output[from].value > U64_MAX THEN [res |-> "panic", value |-> 0]
        ELSE IF output_value + output[from].value >= input_value THEN [res |-> "err", value |-> 0]
        ELSE [res |-> "ok", value |-> output_value + output[from].value]
    ELSE LET left == OutputValue(output, from, (from + to) \div 2, output_value, input_value)
         IN IF left.res # "ok" THEN left
            ELSE OutputValue(output, (from + to) \div 2 + 1, to, left.value, input_value)

\* starting_weight: tx.weight() + WITNESS_FLAG_BYTES + witness_max_weight
StartingWeight(t, a) == Weight(t) + 2 + a.witness_max_weight

WeightWithChange_no_varint_growth(t, a) ==
    StartingWeight(t, a) + TxOutLen(TxOut(0, a.change_destination_script)) * 4

\* weight_with_change: the change output and the bytes the output count grows by
WeightWithChange(t, a) ==
    StartingWeight(t, a) + TxOutLen(TxOut(0, a.change_destination_script)) * 4
        + (VarIntSize(Len(t.output) + 1) - VarIntSize(Len(t.output))) * 4

\* weight * feerate_sat_per_1000_weight / 1000
Fees(weight, a) == (weight * a.feerate_sat_per_1000_weight) \div 1000

AddsChange_above_dust(change_value, dust_value) == change_value > dust_value

\* `if change_value >= dust_value.to_sat() as i64`
AddsChange(change_value, dust_value) == change_value >= dust_value

\* maybe_add_change_output has not returned
NotCalled == [res |-> "none", weight |-> 0]

Returned(res, weight, t) == [res |-> res, weight |-> weight, tx |-> t]

MaybeAddChangeOutput_checks_fee_after_push(t, a) ==
    IF a.input_value > MAX_MONEY THEN Returned("err", 0, t)
    ELSE LET sum == OutputValue(t.output, 1, Len(t.output), 0, a.input_value) IN
    IF sum.res # "ok" THEN Returned(sum.res, 0, t)
    ELSE LET change_value == (a.input_value - sum.value) - Fees(WeightWithChange(t, a), a)
             pushed == [t EXCEPT !.output =
                            Append(@, TxOut(change_value, a.change_destination_script))]
         IN IF AddsChange(change_value, MinimalNonDust(a.change_destination_script))
            THEN Returned("ok", WeightWithChange(t, a), pushed)
            ELSE IF (a.input_value - sum.value) - Fees(StartingWeight(t, a), a) < 0
                THEN Returned("err", 0, pushed)
            ELSE Returned("ok", StartingWeight(t, a), t)

\* maybe_add_change_output: what it returns, and the transaction it leaves
MaybeAddChangeOutput(t, a) ==
    IF a.input_value > MAX_MONEY THEN Returned("err", 0, t)
    ELSE LET sum == OutputValue(t.output, 1, Len(t.output), 0, a.input_value) IN
    IF sum.res # "ok" THEN Returned(sum.res, 0, t)
    ELSE LET change_value == (a.input_value - sum.value) - Fees(WeightWithChange(t, a), a)
         IN IF AddsChange(change_value, MinimalNonDust(a.change_destination_script))
            THEN Returned("ok", WeightWithChange(t, a),
                          [t EXCEPT !.output =
                              Append(@, TxOut(change_value, a.change_destination_script))])
            ELSE IF (a.input_value - sum.value) - Fees(StartingWeight(t, a), a) < 0
                THEN Returned("err", 0, t)
            ELSE Returned("ok", StartingWeight(t, a), t)

InitChange ==
    /\ InitClient /\ call = NoCall /\ SortIdle /\ InvoiceIdle
    /\ \/ orig_tx \in Transactions /\ args \in ArgsSet
       \/ orig_tx = ManyOutputs /\ args \in ManyOutputsArgs
    /\ txn = orig_tx
    /\ ret = NotCalled

\* the call of maybe_add_change_output
AddChange ==
    /\ args \in ArgsSet /\ ret = NotCalled
    /\ LET r == MaybeAddChangeOutput(txn, args) IN
        /\ ret' = [res |-> r.res, weight |-> r.weight]
        /\ txn' = r.tx
    /\ UNCHANGED <<orig_tx, args, sortVars, invoiceVars>>
    /\ UNCHANGED <<envVars, queueVars, stateVars, syncVars, detailVars, callVars, reportVars, lockVars>>

NextChange == AddChange

SpecChange == InitChange /\ [][NextChange]_vars

(***************************************************************************)
(* bolt11_payment.  An Option is a sequence: <<>> for None, <<v>> for       *)
(* Some(v).  Of an invoice the model keeps what the functions read.         *)
(***************************************************************************)
Invoices ==
    {Bolt11Invoice(a, h, "secret", m, e) :
        a \in {<<>>, <<0>>, <<42>>, <<128>>}, h \in {"h1", "h2"},
        m \in {None, "metadata"}, e \in {<<>>, <<3600>>}}

AmountsMsat == {0, 42, 128}

\* params_from_invoice: the hash, secret and metadata of the invoice, the
\* expiry if it has one, and the value to pay
ParamsFromInvoice(inv, amount) ==
    PaymentResult("ok", inv.payment_hash, inv.payment_secret, inv.payment_metadata,
                  inv.expires_at, amount)

Err == PaymentResult("err", None, None, None, <<>>, 0)

PaymentParametersFromVariableAmountInvoice_any_invoice(inv, amount) ==
    ParamsFromInvoice(inv, amount)

\* `if invoice.amount_milli_satoshis().is_some() { Err(()) } else { Ok(..) }`
PaymentParametersFromVariableAmountInvoice(inv, amount) ==
    IF inv.amount # <<>> THEN Err ELSE ParamsFromInvoice(inv, amount)

\* `if let Some(amount_msat) = invoice.amount_milli_satoshis() { Ok(..) } else { Err(()) }`
PaymentParametersFromInvoice(inv) ==
    IF inv.amount # <<>> THEN ParamsFromInvoice(inv, inv.amount[1]) ELSE Err

InitInvoice ==
    /\ InitClient /\ call = NoCall /\ SortIdle /\ ChangeIdle
    /\ invoice \in Invoices
    /\ amount_msat \in AmountsMsat
    /\ from_fixed = NoPayment /\ from_variable = NoPayment

\* a call of payment_parameters_from_invoice
FromInvoice ==
    /\ invoice \in Invoices /\ from_fixed = NoPayment
    /\ from_fixed' = PaymentParametersFromInvoice(invoice)
    /\ UNCHANGED <<invoice, amount_msat, from_variable, sortVars, changeVars>>
    /\ UNCHANGED <<envVars, queueVars, stateVars, syncVars, detailVars, callVars, reportVars, lockVars>>

\* a call of payment_parameters_from_variable_amount_invoice
FromVariableAmountInvoice ==
    /\ invoice \in Invoices /\ from_variable = NoPayment
    /\ from_variable' = PaymentParametersFromVariableAmountInvoice(invoice, amount_msat)
    /\ UNCHANGED <<invoice, amount_msat, from_fixed, sortVars, changeVars>>
    /\ UNCHANGED <<envVars, queueVars, stateVars, syncVars, detailVars, callVars, reportVars, lockVars>>

NextInvoice == FromInvoice \/ FromVariableAmountInvoice

SpecInvoice == InitInvoice /\ [][NextInvoice]_vars

(***************************************************************************)
(* Properties of sync().                                                   *)
(***************************************************************************)
\* caller p is between taking and releasing the sync_state lock
InSync(p) == pc[p] \notin {"idle", "panicked"}

\* this step is the tip re-check of caller p after its confirmation sub-pass
ConfCheckStep(p) == pc[p] = "conf_check" /\ pc'[p] # "conf_check"

\* this step delivers confirmation records to the sinks
DeliversConfirmed ==
    /\ notified' # notified
    /\ \E i \in 1..Len(notified') : notified'[i].kind = "transactions_confirmed"

\* C1: the records of a confirmation sub-pass are delivered, and
\* last_sync_hash is set, only in the step that re-queries the tip after the
\* sub-pass and gets the hash the sub-pass ran against; when the re-queried
\* tip differs nothing is delivered, pending_sync becomes true, last_sync_hash
\* and the watch sets stay, and the loop restarts with the re-queried tip.
C1_DeliveredOnlyOnUnchangedTip ==
    [][ /\ (DeliversConfirmed \/ last_sync_hash' # last_sync_hash)
            => \E p \in Callers : ConfCheckStep(p) /\ remoteTip = tip_hash[p]
                                  /\ last_sync_hash' = tip_hash[p]
        /\ \A p \in Callers :
            (ConfCheckStep(p) /\ remoteTip # tip_hash[p] /\ pc'[p] # "idle")
                => /\ notified' = <<>>
                   /\ pending_sync'
                   /\ last_sync_hash' = last_sync_hash
                   /\ UNCHANGED watchVars
                   /\ confirmed_txs'[p] = <<>>
                   /\ pc'[p] = "loop"
                   /\ tip_hash'[p] = remoteTip ]_vars

\* a sub-pass was thrown away because the tip had moved under it
C1_Witness ==
    /\ last.kind = "conf_tip_restart"
    /\ watched_transactions # {}
    /\ \E p \in Callers : pc[p] = "loop" /\ tip_hash[p] = remoteTip /\ tip_hash[p] # last_sync_hash

\* this step makes sync() of caller p return an error
ReturnsErr(p) == InSync(p) /\ pc'[p] = "idle" /\ last'.kind # "break"

CommitStep(p) ==
    /\ ConfCheckStep(p)
    /\ pc'[p] = "loop"
    /\ remoteTip = tip_hash[p]
    /\ phases' = Append(phases, "transactions_confirmed")
    /\ phases[Len(phases)] = "confirmation_lookups"

\* this step ends an iteration of caller p in an error return or a restart
EndsUncommitted(p) ==
    /\ pc[p] \in {"unconf", "unconf_check", "best_block", "conf", "conf_check"}
    /\ pc'[p] \in {"idle", "loop"}
    /\ ~CommitStep(p)

\* C3: pending_sync is cleared and last_sync_hash assigned only together, in
\* the commit step after a confirmation sub-pass and an unchanged tip
\* re-check; an iteration that ends in an error return or a restart leaves
\* last_sync_hash as it was and pending_sync true.
C3_CommitOnlyTogether ==
    [][ /\ ((pending_sync /\ ~pending_sync') \/ last_sync_hash' # last_sync_hash)
            => \E p \in Callers : CommitStep(p)
        /\ \A p \in Callers :
            CommitStep(p) => (~pending_sync' /\ last_sync_hash' = tip_hash[p]
                              /\ notified' = ConfirmedEvents(confirmed_txs[p]))
        /\ \A p \in Callers :
            EndsUncommitted(p) => (pending_sync' /\ last_sync_hash' = last_sync_hash) ]_vars

\* after a committed iteration, a later one of the same history ended in a
\* restart
C3_Witness ==
    /\ last.kind = "conf_restart"
    /\ last_sync_hash # None
    /\ pending_sync

\* C4: at most one caller is between acquiring and releasing the sync_state
\* lock, and the lock is held exactly while one is.
C4_MutualExclusion ==
    /\ Cardinality({p \in Callers : InSync(p)}) <= 1
    /\ sync_locked <=> (\E p \in Callers : InSync(p))

\* one caller is in its confirmation sub-pass while the other waits
C4_Witness == pc["s1"] = "conf" /\ pc["s2"] = "idle" /\ sync_locked

InconsistencyConditions == {"hash_mismatch", "no_height", "dedup", "tip_not_in_best_chain"}

\* C5: a step that meets an Inconsistency condition never returns: it sets
\* pending_sync, keeps the lock, delivers nothing, leaves the watch sets and
\* last_sync_hash alone and goes back to the head of the loop with the same tip.
C5_InconsistencyRestarts ==
    [][ \A p \in Callers :
            (pc'[p] # pc[p] /\ last'.why \in InconsistencyConditions)
                => /\ pc'[p] = "loop"
                   /\ sync_locked'
                   /\ pending_sync'
                   /\ notified' = <<>>
                   /\ confirmed_txs'[p] = <<>>
                   /\ tip_hash'[p] = tip_hash[p]
                   /\ UNCHANGED <<watchVars, last_sync_hash>> ]_vars

\* the sub-pass met a dedup disagreement and the loop restarted
C5_Witness ==
    /\ last = Step("s1", "conf_restart", "dedup")
    /\ pc["s1"] = "loop"
    /\ pending_sync

\* the confirmation records of `notified`, in the order delivered to sink c
Delivered(c) ==
    SelectSeq(notified, LAMBDA e : e.kind = "transactions_confirmed" /\ e.sink = c)

\* C9: every batch of confirmation records is handed to sync(), and
\* delivered to each sink, in ascending order of block height and, within a
\* height, of position.
C9_DeliveredInHeightPosOrder ==
    /\ \A c \in SeqRange(Sinks) : \A i, j \in 1..Len(Delivered(c)) :
        i < j => \/ Delivered(c)[i].height < Delivered(c)[j].height
                 \/ /\ Delivered(c)[i].height = Delivered(c)[j].height
                    /\ Delivered(c)[i].pos <= Delivered(c)[j].pos
    /\ \A p \in Callers : pc[p] = "conf_check" =>
        \A i, j \in 1..Len(confirmed_txs[p]) :
            i < j => \/ confirmed_txs[p][i].block_height < confirmed_txs[p][j].block_height
                     \/ /\ confirmed_txs[p][i].block_height = confirmed_txs[p][j].block_height
                        /\ confirmed_txs[p][i].pos <= confirmed_txs[p][j].pos

\* two records of one height were delivered, the lower position first
C9_Witness ==
    /\ last.kind = "commit"
    /\ Len(Delivered("c1")) = 2
    /\ Delivered("c1")[1].height = Delivered("c1")[2].height
    /\ Delivered("c1")[1].pos < Delivered("c1")[2].pos

\* this step delivers the unconfirmations of caller p's sub-pass
UnconfDelivery(p) == pc[p] = "unconf_check" /\ pc'[p] = "best_block"

\* C10: when the tip is new and unchanged at the re-check, every sink receives
\* transaction_unconfirmed for each relevant txid reported with a block that
\* is out of the best chain, and for no txid reported only with blocks that
\* are in it, before best_block_updated and before any confirmation lookup of
\* the iteration.
C10_UnconfirmedBeforeLookups ==
    [][ /\ \A p \in Callers : UnconfDelivery(p) =>
            /\ remoteTip = tip_hash[p]
            /\ tip_hash[p] # last_sync_hash
            /\ \A i \in 1..Len(seen) : \A c \in 1..Len(Sinks) :
                (seen[i].answer = "out") =>
                    (\E k \in 1..Len(notified') :
                        notified'[k] = Event("transaction_unconfirmed", Sinks[c],
                                             seen[i].txid, None, NoHeight, 0, 0))
            /\ \A k \in 1..Len(notified') :
                /\ notified'[k].kind = "transaction_unconfirmed"
                /\ \E i \in 1..Len(seen) :
                    seen[i].txid = notified'[k].txid /\ seen[i].answer = "out"
            /\ phases' = <<"block_status_queries", "transaction_unconfirmed">>
        /\ (/\ notified' # notified
            /\ \E k \in 1..Len(notified') : notified'[k].kind = "transaction_unconfirmed")
                => \E p \in Callers : UnconfDelivery(p)
        /\ \A i, j \in 1..Len(phases') :
            (phases'[j] = "transaction_unconfirmed" /\ i < j)
                => phases'[i] = "block_status_queries" ]_vars

\* the unconfirmation of a reorganised-out transaction reached both sinks
C10_Witness ==
    /\ last.kind = "unconf_delivered"
    /\ Len(notified) = Len(Sinks)
    /\ \A k \in 1..Len(notified) : notified[k].kind = "transaction_unconfirmed"
    /\ \E p \in Callers : pc[p] = "best_block"

(***************************************************************************)
(* Properties of get_confirmed_transactions and get_confirmed_tx.          *)
(***************************************************************************)
\* the Merkle proof of the last lookup has not one match and one position
BadProofCount ==
    /\ lookup # NoLookup
    /\ lookup.answer.merkle = "proof"
    /\ (Len(lookup.answer.matches) # 1 \/ Len(lookup.answer.indexes) # 1)

\* the last lookup made sync() return a Failed error
LookupFailedSync ==
    /\ lookup.res.res = "failed"
    /\ last = Step("s1", "conf_failed", "bad_proof")
    /\ \A p \in Callers : pc[p] = "idle"
    /\ ~sync_locked
    /\ pending_sync

\* C6 as stated: a proof without exactly one match and one position makes
\* the lookup Failed and sync return an error, whether or not an expected
\* block hash was supplied.
C6_AsStated == BadProofCount => LookupFailedSync

\* C6: a proof without exactly one match and one position makes the lookup
\* Failed and sync return an error when no expected block hash was supplied or
\* the proof is for the expected block; when the proof is for another block
\* than the expected one the lookup is an Inconsistency and the pass restarts.
\* In neither case is the candidate skipped.
C6_BadProofFailsUnlessHashMismatch ==
    BadProofCount =>
        /\ lookup.res.res # "none"
        /\ IF lookup.expected = None \/ lookup.expected = lookup.answer.block_hash
           THEN LookupFailedSync
           ELSE /\ lookup.res.res = "incons"
                /\ last = Step("s1", "conf_restart", "hash_mismatch")
                /\ pc["s1"] = "loop"
                /\ pending_sync

\* a proof with two matches for the expected block ended the call
C6_Witness ==
    /\ BadProofCount
    /\ Len(lookup.answer.matches) = 2
    /\ lookup.expected = lookup.answer.block_hash
    /\ LookupFailedSync

\* the last lookup got a valid proof and a transaction of 64 bytes
Valid64 ==
    /\ lookup # NoLookup
    /\ lookup.answer.merkle = "proof"
    /\ lookup.answer.matches = <<lookup.txid>>
    /\ Len(lookup.answer.indexes) = 1
    /\ lookup.expected \in {None, lookup.answer.block_hash}
    /\ lookup.answer.tx = "tx"
    /\ lookup.answer.tx_txid = lookup.txid
    /\ lookup.answer.tx_size = 64

\* C7: a candidate with a valid proof whose transaction is 64 bytes long
\* gives no record, no error and no restart, with or without a known block
\* height; no record of a 64-byte transaction is collected or delivered.
C7_SizeSixtyFourSkipped ==
    /\ Valid64 =>
        /\ lookup.res = LookupResult("none", "size_64", NoTx, 2)
        /\ last = Step("s1", "conf_turn", "size_64")
        /\ pc["s1"] = "conf"
        /\ ~HasTxid(confirmed_txs["s1"], lookup.txid)
    /\ \A p \in Callers : \A i \in 1..Len(confirmed_txs[p]) : confirmed_txs[p][i].size # 64
    /\ \A k \in 1..Len(notified) : notified[k].size # 64

\* a spending transaction of 64 bytes, its height known, was skipped
C7_Witness ==
    /\ Valid64
    /\ lookup.known # NoHeight
    /\ lookup.res.res = "none"
    /\ pc["s1"] = "conf"

\* the last output-status answer names a spending transaction the first loop
\* looked up, with a status
ReachedTwice ==
    /\ ostatus.answer.ostatus = "some"
    /\ ostatus.answer.txid \in watched_transactions
    /\ ostatus.answer.status = "some"
    /\ direct[ostatus.answer.txid] \in {"some", "none"}

\* the sub-pass ended in the dedup Inconsistency and the pass restarted
DedupRestart ==
    /\ last = Step("s1", "conf_restart", "dedup")
    /\ pc["s1"] = "loop"
    /\ pending_sync
    /\ confirmed_txs["s1"] = <<>>
    /\ notified = <<>>

\* C8 as stated: a txid reached by both loops, the two disagreeing on its
\* confirmation in either direction, is an Inconsistency and the pass restarts.
C8_AsStated ==
    (ReachedTwice /\ ((direct[ostatus.answer.txid] = "some") # ostatus.answer.confirmed))
        => DedupRestart

\* C8: the dedup Inconsistency is raised exactly when the spending txid has a
\* record in this sub-pass already and the output status reports it as
\* unconfirmed.  So a txid the first loop found confirmed and an output status
\* reports as unconfirmed restarts the pass, delivering nothing; a txid the
\* first loop found unconfirmed and an output status reports as confirmed
\* raises nothing: it is looked up again with the reported block hash and
\* height, unless an earlier output lookup recorded it.
C8_DedupOneDirection ==
    ReachedTwice =>
        /\ (direct[ostatus.answer.txid] = "some") => ostatus.had
        /\ (ostatus.had /\ ~ostatus.answer.confirmed) <=> DedupRestart
        /\ (direct[ostatus.answer.txid] = "none" /\ ostatus.answer.confirmed) =>
            /\ last.why # "dedup"
            /\ \/ ostatus.had /\ lookup = NoLookup
               \/ /\ ~ostatus.had
                  /\ lookup.txid = ostatus.answer.txid
                  /\ lookup.expected = ostatus.answer.block_hash
                  /\ lookup.known = ostatus.answer.block_height

\* the first loop recorded the transaction, the output status calls it
\* unconfirmed
C8_Witness ==
    /\ ReachedTwice
    /\ direct[ostatus.answer.txid] = "some"
    /\ ~ostatus.answer.confirmed
    /\ DedupRestart

(***************************************************************************)
(* Properties of get_unconfirmed_transactions.                             *)
(***************************************************************************)
\* the sinks reported an entry with no block hash (it is never passed over)
HasUntracked == \E i \in 1..Len(reports) : reports[i].block_hash = None

\* C11 as stated: when a sink reports a relevant txid with no block hash,
\* the sync call ends in the fatal outcome (the panic).
C11_AsStated ==
    (HasUntracked /\ pc["s1"] # "unconf") => (pc["s1"] = "panicked" /\ poisoned)

\* C11: when a sink reports a relevant txid with no block hash, the call
\* never returns success, never passes the entry over and delivers nothing:
\* it panics on reaching the entry, unless the block-status query of an entry
\* visited before it fails, and then it returns that error with pending_sync
\* set.
C11_UntrackedNeverPassedOver ==
    HasUntracked =>
        /\ notified = <<>>
        /\ phases = <<>>
        /\ last_sync_hash = None
        /\ watched_transactions = {}
        /\ \A i \in 1..Len(seen) : seen[i].block_hash # None
        /\ \/ pc["s1"] = "unconf" /\ sync_locked
           \/ /\ pc["s1"] = "panicked"
              /\ Head(reports).block_hash = None
              /\ last = Step("s1", "unconf_panic", "untracked_confirmation")
              /\ poisoned /\ ~sync_locked
           \/ /\ pc["s1"] = "idle"
              /\ last = Step("s1", "unconf_err", "transport")
              /\ pending_sync /\ ~sync_locked

\* the loop met the entry with no block hash and the call panicked
C11_Witness ==
    /\ HasUntracked
    /\ pc["s1"] = "panicked"
    /\ Len(reports) = 1
    /\ last.kind = "unconf_panic"

(***************************************************************************)
(* Properties of the registration queue.                                   *)
(***************************************************************************)
\* C12: a registration is held up by nothing but another holder of the queue
\* mutex: whenever the mutex is free it can be taken, whatever sync() is
\* doing; a registrant that holds it can always insert and release; sync()
\* holds it only in the merge step, never at a query or a notification, and
\* can always finish that step.  So no holder of the queue mutex ever waits.
C12_RegistrationNeverWaitsForSync ==
    /\ (queue_holder = None /\ envSteps < MaxEnv)
            => \A r \in Registrants : ENABLED RegLock(r)
    /\ \A r \in Registrants : queue_holder = r =>
            \A t \in Txids, o \in Outpoints :
                ENABLED RegInsertTx(r, t) /\ ENABLED RegInsertOutput(r, o)
    /\ \A p \in Callers :
        /\ queue_holder = p => (pc[p] = "merge" /\ ENABLED LoopMerge(p))
        /\ pc[p] = "merge" => queue_holder = p

\* a registrant holds the queue mutex while a sync pass waits for the
\* server's answer in its confirmation sub-pass
C12_Witness ==
    /\ queue_holder = "r1"
    /\ pc["s1"] = "conf_check"
    /\ sync_locked
    /\ watched_transactions # {}

(***************************************************************************)
(* Properties of the notifications of one call.                            *)
(***************************************************************************)
\* the notifications of kind k that sink c got in the last step
Got(c, k) == SelectSeq(notified, LAMBDA e : e.kind = k /\ e.sink = c)

\* C13 as stated: a sync() call that ends in success has given every sink at
\* most one best_block_updated and at most one batch of confirmation records.
C13_AsStated ==
    (last.kind = "break" /\ call # NoCall) => (call.best_blocks <= 1 /\ call.batches <= 1)

\* C13: in one loop iteration every sink receives at most one
\* best_block_updated and at most one batch of confirmation records, no record
\* twice, and the best_block_updated comes first; a call has one such round
\* per iteration at most, and it may run several iterations before it returns
\* success.
C13_OncePerIteration ==
    /\ \A c \in SeqRange(Sinks) :
        /\ Len(Got(c, "best_block_updated")) <= 1
        /\ \A i, j \in 1..Len(Got(c, "transactions_confirmed")) :
            Got(c, "transactions_confirmed")[i].txid = Got(c, "transactions_confirmed")[j].txid
                => i = j
    /\ \A i, j \in 1..Len(phases) :
        /\ (phases[i] = phases[j] /\ phases[i] \in {"best_block_updated", "transactions_confirmed"})
                => i = j
        /\ (phases[i] = "best_block_updated" /\ phases[j] = "transactions_confirmed") => i < j
    /\ call # NoCall =>
        /\ call.best_blocks <= call.iterations
        /\ call.batches <= call.iterations

\* a call returned success after a second best_block_updated round
C13_Witness ==
    /\ last.kind = "break"
    /\ call # NoCall
    /\ call.iterations = 2
    /\ call.best_blocks = 2

\* C14: last_sync_hash changes only in the commit of an iteration that ran
\* against a tip other than last_sync_hash, and in that iteration the
\* unconfirmation sub-pass ran, the tip re-check passed and the
\* transaction_unconfirmed notifications were delivered before the commit; a
\* step of an iteration whose tip equals last_sync_hash never changes it.
C14_AdvanceOnlyAfterUnconfirmation ==
    [][ /\ last_sync_hash' # last_sync_hash =>
            \E p \in Callers :
                /\ CommitStep(p)
                /\ tip_hash[p] # last_sync_hash
                /\ last_sync_hash' = tip_hash[p]
                /\ Len(phases) >= 2
                /\ phases[1] = "block_status_queries"
                /\ phases[2] = "transaction_unconfirmed"
        /\ \A p \in Callers :
            (InSync(p) /\ tip_hash[p] = last_sync_hash) => last_sync_hash' = last_sync_hash ]_vars

\* a second commit moved last_sync_hash to the tip the chain had moved to
C14_Witness ==
    /\ last.kind = "commit"
    /\ iters = 2
    /\ last_sync_hash = "B"
    /\ phases[2] = "transaction_unconfirmed"

(***************************************************************************)
(* Properties of a pass that finds a watched transaction confirmed.        *)
(***************************************************************************)
\* the last lookup, made by the loop over the watched txids (no output has
\* been queried yet), got a valid proof and the matching transaction, and no
\* query failed; the block has a height
ConfirmedOnServer ==
    /\ lookup # NoLookup
    /\ ostatus = NoOutputQuery
    /\ lookup.expected = None /\ lookup.known = NoHeight
    /\ lookup.txid \in watched_transactions
    /\ lookup.answer.merkle = "proof"
    /\ lookup.answer.matches = <<lookup.txid>>
    /\ Len(lookup.answer.indexes) = 1
    /\ lookup.answer.tx = "tx"
    /\ lookup.answer.tx_txid = lookup.txid
    /\ lookup.answer.status # "err"
    /\ ~(lookup.answer.status = "ok" /\ lookup.answer.height = NoHeight)

\* the records of txid t in the list l
RecordsOf(l, t) == SelectSeq(l, LAMBDA ctx : ctx.txid = t)

\* C15 as stated: a watched txid with a valid proof in a block with a height,
\* no query failing, gets a Confirmation Record.
C15_AsStated == ConfirmedOnServer => lookup.res.res = "some"

\* C15: a watched txid with a valid proof at position p in a block of height
\* H, its transaction not 64 bytes long and no query failing, gets exactly one
\* record (txid, H, p); the record stays in the list until the tip re-check;
\* with the tip unchanged each sink receives it exactly once, last_sync_hash
\* becomes the tip, and the call returns success at the next loop head.
C15_WatchedTxConfirmedOnce ==
    /\ [](/\ (ConfirmedOnServer /\ lookup.answer.tx_size # 64) =>
                /\ lookup.res.res = "some"
                /\ last.kind = "conf_turn"
                /\ direct[lookup.txid] = "some"
                /\ RecordsOf(confirmed_txs["s1"], lookup.txid)
                     = <<ConfirmedTx(lookup.txid, lookup.answer.indexes[1],
                                     lookup.answer.height, lookup.answer.tx_size)>>
          /\ \A t \in Txids :
                /\ (direct[t] = "some" /\ pc["s1"] \in {"conf", "conf_check"})
                        => Len(RecordsOf(confirmed_txs["s1"], t)) = 1
                /\ (direct[t] = "some" /\ last.kind = "commit")
                        => \A c \in SeqRange(Sinks) :
                              Len(SelectSeq(Got(c, "transactions_confirmed"),
                                            LAMBDA e : e.txid = t)) = 1
          /\ last.kind \in {"commit", "break"} =>
                (last_sync_hash = remoteTip /\ ~pending_sync)
          /\ last.kind = "break" => (pc["s1"] = "idle" /\ ~sync_locked))
    /\ [][ \A p \in Callers :
            /\ (pc[p] \in {"conf", "conf_check"} /\ pc'[p] \in {"conf", "conf_check"})
                    => \A i \in 1..Len(confirmed_txs[p]) :
                          \E j \in 1..Len(confirmed_txs'[p]) :
                              confirmed_txs'[p][j] = confirmed_txs[p][i]
            /\ CommitStep(p) => notified' = ConfirmedEvents(confirmed_txs[p]) ]_vars

\* the call returned success after the watched transaction was found
\* confirmed and delivered
C15_Witness ==
    /\ last.kind = "break"
    /\ direct["t1"] = "some"
    /\ watched_transactions = {}
    /\ last_sync_hash = "A"
    /\ pc["s1"] = "idle"

Occurrences(v, e) == Cardinality({i \in 1..Len(v) : v[i] = e})

\* a may stand before b: lower value, or the same value and lower script
\* bytes, or the same of both and tie_breaker does not put a after b
MayPrecede(a, b) ==
    \/ a[1].value < b[1].value
    \/ /\ a[1].value = b[1].value
       /\ SliceCmp(a[1].script_pubkey, b[1].script_pubkey) = "Less"
    \/ /\ a[1].value = b[1].value
       /\ a[1].script_pubkey = b[1].script_pubkey
       /\ TieBreaker(tie_breaker, a[2], b[2]) # "Greater"

Called == ret # NotCalled
ChangeAdded == Called /\ Len(txn.output) = Len(orig_tx.output) + 1
OrigValue == TotalValue(orig_tx.output, 1, Len(orig_tx.output))
FeesWithoutChange == Fees(Weight(orig_tx) + 2 + args.witness_max_weight, args)
\* the weight of the transaction with the change output in it, plus the
\* witness flag bytes and the witnesses
WeightOfChanged ==
    Weight([orig_tx EXCEPT !.output = Append(@, TxOut(0, args.change_destination_script))])
        + 2 + args.witness_max_weight

\* C18: when the call returns Err, for an input_value above MAX_MONEY, outputs
\* worth at least input_value, or an input_value that does not cover outputs
\* and fee of the transaction as it is, the transaction is as it was; so it
\* is when the call returns Ok and added no output.
C18_UnchangedUnlessChangeAdded ==
    /\ (Called /\ ret.res = "err") =>
            /\ txn = orig_tx
            /\ \/ args.input_value > MAX_MONEY
               \/ OrigValue >= args.input_value
               \/ args.input_value - OrigValue - FeesWithoutChange < 0
    /\ (Called /\ ret.res = "ok" /\ ~ChangeAdded) => txn = orig_tx

\* the call failed because the input does not cover the fee of the
\* transaction as it is, though it exceeds the outputs
C18_Witness ==
    /\ Called /\ ret.res = "err"
    /\ args.input_value <= MAX_MONEY
    /\ OrigValue < args.input_value
    /\ orig_tx.output # <<>>

\* C19: at most one output is appended, the others stay; an appended output
\* pays the change script, is worth at least the script's dust limit and
\* exactly input_value less the outputs less floor(weight_with_change *
\* feerate / 1000), where weight_with_change, which is returned, is the
\* weight of the transaction with the change output plus flag and witnesses.
C19_ChangeNeverDust ==
    Called =>
        /\ Len(txn.output) \in {Len(orig_tx.output), Len(orig_tx.output) + 1}
        /\ \A i \in 1..Len(orig_tx.output) : txn.output[i] = orig_tx.output[i]
        /\ txn.rest_weight = orig_tx.rest_weight
        /\ ChangeAdded =>
            LET change == txn.output[Len(txn.output)] IN
            /\ ret.res = "ok"
            /\ change.script_pubkey = args.change_destination_script
            /\ change.value >= MinimalNonDust(args.change_destination_script)
            /\ ret.weight = WeightOfChanged
            /\ ret.weight = Weight(txn) + 2 + args.witness_max_weight
            /\ change.value = args.input_value - OrigValue
                                - ((WeightOfChanged * args.feerate_sat_per_1000_weight) \div 1000)

\* a 253rd output was appended as change: the output count grew by two bytes
C19_Witness ==
    /\ ChangeAdded
    /\ Len(txn.output) = 253
    /\ args.feerate_sat_per_1000_weight > 0
    /\ txn.output[253].value = MinimalNonDust(args.change_destination_script)

C21_ExactlyOneSucceeds ==
    /\ from_fixed # NoPayment =>
        /\ from_fixed.res = "ok" <=> invoice.amount # <<>>
        /\ from_fixed.res = "ok" =>
            /\ from_fixed.final_value_msat = invoice.amount[1]
            /\ from_fixed.payment_hash = invoice.payment_hash
    /\ from_variable # NoPayment =>
        /\ from_variable.res = "ok" <=> invoice.amount = <<>>
        /\ from_variable.res = "ok" =>
            /\ from_variable.final_value_msat = amount_msat
            /\ from_variable.payment_hash = invoice.payment_hash
    /\ (from_fixed # NoPayment /\ from_variable # NoPayment) =>
        (from_fixed.res = "ok" <=> from_variable.res # "ok")

\* both were called on an invoice of 128 msat with 42 msat passed: only
\* payment_parameters_from_invoice succeeded, for 128 msat
C21_Witness ==
    /\ invoice.amount = <<128>> /\ amount_msat = 42
    /\ from_fixed.res = "ok" /\ from_fixed.final_value_msat = 128
    /\ from_variable.res = "err"

(***************************************************************************)
(* Further properties of sync().                                           *)
(***************************************************************************)
\* C22: when the tip queried after the unconfirmation sub-pass is not the
\* tip the sub-pass ran against, the step delivers nothing, the iteration
\* has done nothing but the block status queries (no transaction_unconfirmed,
\* no best_block_updated, no pruning, no confirmation lookup), pending_sync
\* is set, the watch sets and last_sync_hash stay, and the loop restarts at
\* its head, lock held, with the re-queried hash as its tip.
C22_TipChangedAfterUnconfirmation ==
    [][ \A p \in Callers :
            (/\ pc[p] = "unconf_check" /\ pc'[p] # "unconf_check"
             /\ last'.kind # "unconf_tip_err"
             /\ remoteTip # tip_hash[p])
            => /\ last' = Step(p, "unconf_tip_restart", "tip_changed")
               /\ notified' = <<>>
               /\ phases' = <<"block_status_queries">>
               /\ pending_sync'
               /\ tip_hash'[p] = remoteTip
               /\ pc'[p] = "loop"
               /\ sync_locked'
               /\ unconfirmed_txs'[p] = <<>>
               /\ UNCHANGED <<watchVars, last_sync_hash, queueVars>> ]_vars

\* the tip moved to B while the unconfirmation sub-pass ran against A
C22_Witness ==
    /\ last = Step("s1", "unconf_tip_restart", "tip_changed")
    /\ pc["s1"] = "loop"
    /\ tip_hash["s1"] = "B"
    /\ pending_sync

\* the step of caller p is sync() returning Ok(())
ReturnsOk(p) == pc[p] = "loop" /\ pc'[p] = "idle" /\ last'.kind = "break"

\* the step of caller p is a get_tip_hash() query that answered
TipAnswered(p) ==
    /\ pc[p] \in {"tip", "unconf_check", "conf_check"}
    /\ pc'[p] \notin {pc[p], "idle"}

\* C23: sync() returns Ok(()) only out of the loop head, in an iteration
\* where pending_sync is false, the merge finds the queue empty and moves
\* nothing, and the current tip is last_sync_hash; the return leaves
\* pending_sync false and last_sync_hash at the current tip, and the current
\* tip of a call is always the answer of its most recent tip query (every
\* answered query leaves it at the answer, no other step changes it).
C23_SuccessOnlyWhenNothingToDo ==
    [][ \A p \in Callers :
            /\ (InSync(p) /\ pc'[p] = "idle" /\ last'.why = "none" /\ last'.kind # "tip_err")
               => ReturnsOk(p)
            /\ ReturnsOk(p)
               => /\ ~pending_sync /\ ~pending_sync'
                  /\ queue_transactions = {} /\ queue_outputs = {}
                  /\ UNCHANGED <<watchVars, queueVars>>
                  /\ tip_hash[p] = last_sync_hash
                  /\ last_sync_hash' = tip_hash[p]
                  /\ iters' = iters
            /\ TipAnswered(p) => tip_hash'[p] = remoteTip
            /\ (InSync(p) /\ ~TipAnswered(p) /\ InSync(p)' /\ pc[p] # "tip")
               => tip_hash'[p] = tip_hash[p] ]_vars

\* a call that committed an iteration at tip B returns Ok(()) from the next
C23_Witness ==
    /\ last = Step("s1", "break", "none")
    /\ pc["s1"] = "idle"
    /\ ~pending_sync
    /\ last_sync_hash = "B"
    /\ iters > 0

\* C24: when sync() returns Ok(()), nothing the call merged from the queue
\* is left that a confirmation sub-pass, run after the merge and committed,
\* did not have in the Watch Set it ran over; the loop head that returns
\* found the queue empty, and a loop head reached with merged registrations
\* not yet covered has pending_sync set.
C24_MergedRegistrationsCovered ==
    [][ /\ ReturnsOk("s1") =>
            /\ queue_transactions = {} /\ queue_outputs = {}
            /\ call.merged = {} /\ call'.merged = {}
        /\ (pc'["s1"] = "loop" /\ call'.merged # {}) => pending_sync' ]_vars

\* a call that ran two iterations and merged t1 and o1 returned Ok(()),
\* both covered by a committed confirmation sub-pass
C24_Witness ==
    /\ last = Step("s1", "break", "none")
    /\ call.iterations = 2
    /\ call.merged = {}
    /\ "t1" \in watched_transactions
    /\ "o1" \in watched_outputs
    /\ envSteps = 2

(***************************************************************************)
(* Further properties of the confirmation sub-pass.                        *)
(***************************************************************************)
\* the step of caller p is a turn of a loop of get_confirmed_transactions
\* whose lookup got no Merkle proof from the source
NoProofTurn(p) ==
    /\ pc[p] = "conf"
    /\ todo_txs' # todo_txs \/ todo_outs' # todo_outs
    /\ lookup' # NoLookup
    /\ lookup'.answer.merkle = "none"

\* C25: a lookup, of a watched transaction or of the reported spender of a
\* watched output, that gets no Merkle proof adds no Confirmation Record and
\* is neither an error nor a restart: the list, pending_sync, the lock, the
\* tip and the Watch Set stay, the sub-pass is still under way, and its next
\* turn, or the sort that ends it, can be taken.
C25_NoProofSkipsCandidate ==
    /\ [][ \A p \in Callers : NoProofTurn(p) =>
            /\ lookup'.res = LookupResult("none", "no_proof", NoTx, 1)
            /\ last' = Step(p, "conf_turn", "no_proof")
            /\ confirmed_txs'[p] = confirmed_txs[p]
            /\ pc'[p] = "conf"
            /\ UNCHANGED <<pending_sync, sync_locked, tip_hash, phases, notified,
                           watchVars, last_sync_hash>> ]_vars
    /\ [](\A p \in Callers :
            (pc[p] = "conf" /\ last = Step(p, "conf_turn", "no_proof"))
            => ENABLED (ConfTx(p) \/ ConfOutput(p) \/ ConfSort(p)))

\* the watched t1 was confirmed, the source reported t2 as the confirmed
\* spender of a watched output and had no proof for t2, and nothing is left
\* to visit but the sort: the list holds t1 alone
C25_Witness ==
    /\ last = Step("s1", "conf_turn", "no_proof")
    /\ ostatus # NoOutputQuery /\ ostatus.answer.txid = "t2" /\ ostatus.answer.confirmed
    /\ lookup.txid = "t2" /\ lookup.answer.merkle = "none"
    /\ Len(confirmed_txs["s1"]) = 1 /\ confirmed_txs["s1"][1].txid = "t1"
    /\ todo_txs = {} /\ todo_outs = {}
    /\ ENABLED ConfSort("s1")

\* no two entries of the list are for the same txid
OnePerTxid(txs) == \A i, j \in 1..Len(txs) : txs[i].txid = txs[j].txid => i = j

\* C29: the list of Confirmation Records a confirmation sub-pass builds, at
\* every turn and as handed to sync(), holds at most one record per txid, and
\* so does the batch of transactions_confirmed each sink gets from it, also
\* when a confirmed watched transaction is reported as the spender of
\* watched outputs.
C29_OneRecordPerTxid ==
    \A p \in Callers :
        /\ OnePerTxid(confirmed_txs[p])
        /\ \A i \in 1..Len(Sinks) : OnePerTxid(Got(Sinks[i], "transactions_confirmed"))

\* the watched t1 is in the list, and a watched output is reported as spent
\* by the confirmed t1: the turn adds no second record
C29_Witness ==
    /\ last = Step("s1", "conf_turn", "duplicate")
    /\ "t1" \in watched_transactions
    /\ direct["t1"] = "some"
    /\ ostatus.answer.txid = "t1" /\ ostatus.answer.confirmed /\ ostatus.had
    /\ Len(confirmed_txs["s1"]) = 1 /\ confirmed_txs["s1"][1].txid = "t1"

(***************************************************************************)
(* What the sinks were told of the best block.                             *)
(***************************************************************************)
\* C26 as stated: whenever sync() has returned Ok(()) with last_sync_hash =
\* T, the last best_block_updated the sinks got, over all calls so far, was
\* for block T.
C26_AsStated ==
    (last.kind = "break" /\ call # NoCall) => call.sink_best = last_sync_hash

\* last_sync_hash was A and the sinks knew A; within one call the tip was B,
\* the sinks were told of B, the re-check after the confirmation sub-pass
\* found A again, and the next iteration committed A without a
\* best_block_updated: sync() returned Ok(()) with the sinks left at B
C26_Witness ==
    /\ last = Step("s1", "break", "none")
    /\ pc["s1"] = "idle" /\ ~pending_sync
    /\ last_sync_hash = "A" /\ remoteTip = "A"
    /\ call.sink_best = "B"
    /\ call.iterations = 2 /\ call.best_blocks = 1
    /\ envSteps = 2

(***************************************************************************)
(* A call after a failed one.                                              *)
(***************************************************************************)
\* C28: when a call of sync() returned an error out of the loop, the next
\* call that returns Ok(()) has committed at least one iteration, which ran
\* the confirmation sub-pass over the Watch Set, whatever the tip and the
\* queue were when it started.
C28_SuccessAfterErrorCommitted ==
    (last.kind = "break" /\ call # NoCall /\ call.owed)
        => (call.commits >= 1 /\ ~pending_sync)

\* a registration was merged and the confirmation sub-pass failed; the next
\* call found the tip at last_sync_hash and the queue empty, ran one
\* iteration without the tip_is_new arm, committed and returned Ok(())
C28_Witness ==
    /\ last = Step("s1", "break", "none")
    /\ call.owed
    /\ call.iterations = 1 /\ call.commits = 1 /\ call.best_blocks = 0
    /\ call.merged = {}
    /\ last_sync_hash = "A" /\ remoteTip = "A"
    /\ envSteps = 1
    /\ watched_transactions # {}

(***************************************************************************)
(* Termination of sync().                                                  *)
(***************************************************************************)
\* C27 as stated: with the thread scheduled, every query answered, and the
\* tip and the registrations changing finitely often, every call of sync()
\* returns (or unwinds) and releases the sync lock.
C27_AsStated == sync_locked ~> ~sync_locked

\* the tip has stopped at the hash the call runs with, nothing is queued or
\* left to register, and sync() restarts on an Inconsistency once more,
\* beyond every counted iteration, with the lock held
C27_Witness ==
    /\ last.kind \in {"best_block_restart", "conf_restart"}
    /\ last.why \in InconsistencyConditions
    /\ pc["s1"] = "loop" /\ sync_locked /\ pending_sync
    /\ tip_hash["s1"] = remoteTip
    /\ envSteps = MaxEnv
    /\ queue_transactions = {} /\ queue_outputs = {}
    /\ iters = MaxIters
    /\ ENABLED LoopTopUncounted("s1")

====
